---------------------------- MODULE Spec2Model ----------------------------
(***************************************************************************)
(* A model of package loc (src/loc.go): the NMEA-0183 stream framer Feed,  *)
(* the sentence validator and dispatcher processSentence, the handlers     *)
(* doGGA / doRMC / doGSA / doGSV, the cycle detector checkCycle, the fix   *)
(* assembler getLoc and the unbuffered channel locChan; and of Pack of     *)
(* package ebsf (src/unnamed/part_000), called by the consumer of the      *)
(* channel on every fix it receives.                                       *)
(*                                                                         *)
(* Bytes are numbers 0..255, a []byte or a Go string is a sequence of      *)
(* bytes ("" is << >>).  Go indexes from 0, TLA+ from 1: s[i] of the code  *)
(* is s[i+1] here.  float32 values are fixed-point integers, Scale units   *)
(* per unit (degrees, metres, knots, ...).                                 *)
(***************************************************************************)
EXTENDS Integers, Sequences, FiniteSets, TLC

\* ------------------------------------------------------------------------
\* Constants of the package (src/loc.go:11-43)
LOC_HAVE_NOTHING == 0
LOC_HAVE_TIME == 1
LOC_HAVE_POSITION == 2
LOC_HAVE_ALTITUDE == 3
LOC_HAVE_DOP == 4
LOC_HAVE_SATELLITES == 5

LOC_SIG_BAD == 0
LOC_SIG_GPS == 1

LOC_FIX_NONE == 0
LOC_FIX_BAD == 1
LOC_FIX_2D == 2

GxGGA == 1
GxGSA == 2
GxRMC == 4
GxGSV == 16

\* Byte values of the characters the code names.
ChDollar == 36
ChStar == 42
ChPlus == 43
ChComma == 44
ChMinus == 45
ChDot == 46
ChCR == 13
ChLF == 10

\* Fixed-point resolution of the float32 fields: 4 decimal digits.
Scale == 10 * 10 * 10 * 10

\* ------------------------------------------------------------------------
\* Machine arithmetic

RECURSIVE BitAnd(_, _)
\* a & b on non-negative integers
BitAnd(a, b) ==
  IF a = 0 \/ b = 0 THEN 0
  ELSE ((a % 2) * (b % 2)) + 2 * BitAnd(a \div 2, b \div 2)

\* a | b on non-negative integers
BitOr(a, b) == a + b - BitAnd(a, b)

\* Conversions uint8(x), uint16(x) of a Go int (two's complement wrap).
U8(x) == x % 256
U16(x) == x % 65536

\* Go's integer division and math.Modf truncate toward zero.
TruncDiv(a, b) == IF a >= 0 THEN a \div b ELSE -((-a) \div b)
TruncRem(a, b) == a - b * TruncDiv(a, b)

\* ------------------------------------------------------------------------
\* strings / bytes helpers

IsDigit(c) == c >= 48 /\ c <= 57

\* s[from:to] of Go (0-based, to exclusive)
Slice(s, from, to) == SubSeq(s, from + 1, to)

\* the least element of a set of positions, 0 for the empty set
FirstOf(at) == IF at = {} THEN 0 ELSE CHOOSE i \in at : \A j \in at : i <= j

\* least 1-based position >= p of byte c in s, 0 when there is none
IndexFrom(s, c, p) == FirstOf({i \in p..Len(s) : s[i] = c})

\* strings.IndexByte(s, c): 0-based index of the first c in s, -1 if none
IndexByte(s, c) == IndexFrom(s, c, 1) - 1

\* the k-th smallest of the positions at; 0 for k = 0, n + 1 past the last
NthOf(at, k, n) ==
  IF k = 0 THEN 0
  ELSE IF k > Cardinality(at) THEN n + 1
  ELSE CHOOSE i \in at : Cardinality({j \in at : j <= i}) = k

\* the fields of s between the separators at positions at
FieldsBetween(s, at) ==
  [k \in 1..(Cardinality(at) + 1) |->
     SubSeq(s, NthOf(at, k - 1, Len(s)) + 1, NthOf(at, k, Len(s)) - 1)]

\* strings.Split(s, sep) for a one-byte separator: always at least one field
Split(s, sep) == FieldsBetween(s, {i \in 1..Len(s) : s[i] = sep})

RECURSIVE DigitsValue(_, _, _)
\* value of the decimal digits s[p..], acc the value so far; -1 if a byte is
\* no digit
DigitsValue(s, p, acc) ==
  IF p > Len(s) THEN acc
  ELSE IF ~IsDigit(s[p]) THEN -1
  ELSE DigitsValue(s, p + 1, 10 * acc + (s[p] - 48))

\* v with the sign of the number s, 0 for v = -1 (a syntax error)
Signed(s, v) == IF v < 0 THEN 0 ELSE IF s[1] = ChMinus THEN -v ELSE v

\* strconv.Atoi with its error dropped (v, _ := strconv.Atoi(s)): an optional
\* sign and decimal digits; 0 on a syntax error.  Fields of at most 9 digits
\* (no range error arises below 2^63).
Atoi(s) ==
  IF Len(s) = 0 THEN 0
  ELSE IF s[1] = ChPlus \/ s[1] = ChMinus THEN
    (IF Len(s) = 1 THEN 0 ELSE Signed(s, DigitsValue(s, 2, 0)))
  ELSE Signed(s, DigitsValue(s, 1, 0))

RECURSIVE FracValue(_, _, _, _)
\* the first `left` decimals of s[p..] as an integer (missing decimals are
\* zeros, further decimals are dropped); -1 if a byte is no digit
FracValue(s, p, left, acc) ==
  IF p > Len(s) THEN
    (IF left = 0 THEN acc ELSE FracValue(s, p, left - 1, 10 * acc))
  ELSE IF ~IsDigit(s[p]) THEN -1
  ELSE IF left = 0 THEN FracValue(s, p + 1, 0, acc)
  ELSE FracValue(s, p + 1, left - 1, 10 * acc + (s[p] - 48))

\* the fixed-point value of integer part ipart and decimals fpart, -1 if
\* either is -1
FixedPoint(ipart, fpart) ==
  IF ipart < 0 \/ fpart < 0 THEN -1 ELSE ipart * Scale + fpart

\* the unsigned number s[start..] with its '.' at position dot (0: none)
ParseUnsigned(s, start, dot) ==
  IF dot = 0 THEN
    (IF start > Len(s) THEN -1
     ELSE FixedPoint(DigitsValue(s, start, 0), 0))
  ELSE IF dot = start /\ dot = Len(s) THEN -1
  ELSE FixedPoint(IF dot = start THEN 0
                  ELSE DigitsValue(SubSeq(s, start, dot - 1), 1, 0),
                  FracValue(s, dot + 1, 4, 0))

\* strconv.ParseFloat(s, 32) with its error dropped, in fixed point: an
\* optional sign, digits, an optional '.' and digits; 0 on a syntax error.
\* (The exponent, hexadecimal, "inf" and "nan" forms Go also accepts are not
\* among the fields fed here.)
ParseFloat(s) ==
  IF Len(s) = 0 THEN 0
  ELSE IF s[1] = ChPlus \/ s[1] = ChMinus
    THEN Signed(s, ParseUnsigned(s, 2, IndexFrom(s, ChDot, 2)))
  ELSE Signed(s, ParseUnsigned(s, 1, IndexFrom(s, ChDot, 1)))

HexDigit(c) ==
  IF IsDigit(c) THEN c - 48
  ELSE IF c >= 65 /\ c <= 70 THEN c - 55
  ELSE IF c >= 97 /\ c <= 102 THEN c - 87
  ELSE -1

\* strconv.ParseUint(s, 16, 8) of a 2-byte string with its error dropped
ParseHex2(s) ==
  IF Len(s) # 2 \/ HexDigit(s[1]) < 0 \/ HexDigit(s[2]) < 0 THEN 0
  ELSE 16 * HexDigit(s[1]) + HexDigit(s[2])

\* ------------------------------------------------------------------------
\* Data model (src/loc.go:45-85)

\* LocTime{}
ZeroTime ==
  [Year |-> 0, Month |-> 0, Dow |-> 0, Day |-> 0,
   Hour |-> 0, Minute |-> 0, Second |-> 0, Ms |-> 0]

\* A slice of LocSat: backing array arr of satHeap (0: none), length, capacity.
NilSlice == [arr |-> 0, len |-> 0, cap |-> 0]

\* LocInfo{}
ZeroLoc ==
  [Level |-> 0, Quality |-> 0, NavMode |-> 0, Smask |-> 0, Utc |-> ZeroTime,
   Pdop |-> 0, Hdop |-> 0, Vdop |-> 0, Lat |-> 0, Lon |-> 0, Elv |-> 0,
   Speed |-> 0, Heading |-> 0, Mv |-> 0, Sats |-> NilSlice]

\* The elements s[0:len] of a slice of LocSat, read in heap h.
SatsOf(h, s) == IF s.len = 0 THEN << >> ELSE SubSeq(h[s.arr], 1, s.len)

\* A LocInfo with its satellite list read from the heap: what a holder of the
\* *LocInfo observes.
Deref(h, li) == [li EXCEPT !.Sats = SatsOf(h, li.Sats)]

\* Capacity of the array append allocates when the slice is full (doubling).
GrowCap(oldcap, need) == IF 2 * oldcap >= need THEN 2 * oldcap ELSE need

\* The package variables (src/loc.go:93-131) are the fields of one record g:
\*   curLoc, iuBM (the set of the ids whose bit is set), lastGSV, noGSVcnt,
\*   lst, pst, tst, nOk, feedState, feedBuf,
\*   satHeap (the backing arrays of the []LocSat slices),
\*   objs (the LocInfo copies getLoc allocated, a *LocInfo is an index),
\*   panicked (a panic unwound the goroutine).

\* append(s, ls) when s has room: ls is written in place, into backing
\* array a, which other slices may share
WriteInPlace(a, len, ls) ==
  IF len + 1 <= Len(a) THEN [a EXCEPT ![len + 1] = ls] ELSE Append(a, ls)

\* curLoc.Sats = append(curLoc.Sats, ls)   (src/loc.go:432), s the slice
\* curLoc.Sats
AppendTo(g, s, ls) ==
  IF s.len < s.cap THEN
    [g EXCEPT !.satHeap[s.arr] = WriteInPlace(g.satHeap[s.arr], s.len, ls),
              !.curLoc.Sats.len = s.len + 1]
  ELSE
    [g EXCEPT
       !.satHeap = Append(g.satHeap, Append(SatsOf(g.satHeap, s), ls)),
       !.curLoc.Sats = [arr |-> Len(g.satHeap) + 1, len |-> s.len + 1,
                        cap |-> GrowCap(s.cap, s.len + 1)]]

AppendSat(g, ls) == AppendTo(g, g.curLoc.Sats, ls)

\* curLoc.Sats = curLoc.Sats[:0]: the backing array is kept
ReuseSats(s) == [s EXCEPT !.len = 0]

\* curLoc.Sats = []LocSat{}   (src/loc.go:201, 406): a new, empty slice
EmptySats(s) == NilSlice

\* The backing arrays some slice refers to.
LiveArrays(g) ==
  ({g.curLoc.Sats.arr} \cup {g.objs[i].Sats.arr : i \in 1..Len(g.objs)}) \ {0}

\* slice s after the arrays not in live are dropped
Moved(s, live) ==
  IF s.arr = 0 THEN s
  ELSE [s EXCEPT !.arr = Cardinality({j \in live : j <= s.arr})]

KeepLive(g, live) ==
  IF live = 1..Len(g.satHeap) THEN g
  ELSE [g EXCEPT
          !.satHeap = [i \in 1..Cardinality(live) |->
                         g.satHeap[NthOf(live, i, 0)]],
          !.curLoc.Sats = Moved(g.curLoc.Sats, live),
          !.objs = [i \in 1..Len(g.objs) |->
                      [g.objs[i] EXCEPT !.Sats = Moved(g.objs[i].Sats, live)]]]

\* The garbage collector: backing arrays no slice refers to any more are
\* dropped, the others keep their order.
Collect(g) == KeepLive(g, LiveArrays(g))

\* ------------------------------------------------------------------------
\* fmt.Sscanf

\* One %2d into a uint16 at 1-based position p of s: at most 2 bytes are
\* read, the first must be a digit.  [ok, v, p]: p is the next position.
Scan2d(s, p) ==
  IF p > Len(s) \/ ~IsDigit(s[p]) THEN [ok |-> FALSE, v |-> 0, p |-> p]
  ELSE IF p + 1 <= Len(s) /\ IsDigit(s[p + 1]) THEN
    [ok |-> TRUE, v |-> 10 * (s[p] - 48) + (s[p + 1] - 48), p |-> p + 2]
  ELSE [ok |-> TRUE, v |-> s[p] - 48, p |-> p + 1]

\* The operands of a Sscanf: the scan of one more %2d after the scans so
\* far, when the last of them succeeded.
ScanMore(s, scans) ==
  IF scans[Len(scans)].ok
    THEN Append(scans, Scan2d(s, scans[Len(scans)].p))
    ELSE scans

\* The scans of "%2d%2d%2d" on s.
Scan3(s) == ScanMore(s, ScanMore(s, << Scan2d(s, 1) >>))

\* The scans of "%2d%2d%2d.%2d" on s, given those of "%2d%2d%2d": the '.'
\* must follow the third number.
ScanFrac(s, scans) ==
  IF Len(scans) = 3 /\ scans[3].ok /\ scans[3].p <= Len(s)
     /\ s[scans[3].p] = ChDot
    THEN Append(scans, Scan2d(s, scans[3].p + 1))
    ELSE scans

\* Operand k has been scanned.
Scanned(scans, k) == k <= Len(scans) /\ scans[k].ok

\* fmt.Sscanf(f, "%2d%2d%2d.%2d", &Hour, &Minute, &Second, &Ms): the scan
\* stops at the first operand that fails, the operands after it keep their
\* values.   (src/loc.go:236, 266)
StoreTime(utc, scans) ==
  [utc EXCEPT
     !.Hour = IF Scanned(scans, 1) THEN scans[1].v ELSE utc.Hour,
     !.Minute = IF Scanned(scans, 2) THEN scans[2].v ELSE utc.Minute,
     !.Second = IF Scanned(scans, 3) THEN scans[3].v ELSE utc.Second,
     !.Ms = IF Scanned(scans, 4) THEN scans[4].v ELSE utc.Ms]

ScanTime(f, utc) == StoreTime(utc, ScanFrac(f, Scan3(f)))

\* fmt.Sscanf(f, "%2d%2d%2d", &Day, &Month, &Year)   (src/loc.go:288)
StoreDate(utc, scans) ==
  [utc EXCEPT
     !.Day = IF Scanned(scans, 1) THEN scans[1].v ELSE utc.Day,
     !.Month = IF Scanned(scans, 2) THEN scans[2].v ELSE utc.Month,
     !.Year = IF Scanned(scans, 3) THEN scans[3].v ELSE utc.Year]

ScanDate(f, utc) == StoreDate(utc, Scan3(f))

\* ------------------------------------------------------------------------
\* Sentence handlers

\* fixLG   (src/loc.go:219-222): ddmm.mmmm to degrees.  math.Modf(lg / 100)
\* gives the whole degrees and, times 100, the minutes.
fixLG(lg) ==
  TruncDiv(lg, 100 * Scale) * Scale + TruncDiv(TruncRem(lg, 100 * Scale), 60)

\* "-bed=pen+mad."
DowTable == << 45, 98, 101, 100, 61, 112, 101, 110, 43, 109, 97, 100, 46 >>

\* fixDow   (src/loc.go:226-232), uint16 arithmetic.  The table has 13
\* bytes: a Month above 12 is an index out of range.
fixDowPanics(utc) == utc.Month >= Len(DowTable)

\* The sum of line 231 for year y (already decremented for January and
\* February)
DowSum(y, utc) ==
  U16(U16(U16(U16(U16(y + (y \div 4)) - (y \div 100)) + (y \div 400))
          + DowTable[utc.Month + 1]) + utc.Day)

fixDow(utc) ==
  [utc EXCEPT
     !.Dow = DowSum(IF utc.Month < 3 THEN U16(utc.Year - 1) ELSE utc.Year,
                    utc) % 7]

Negate(cond, v) == IF cond THEN -v ELSE v

ChS == 83
ChW == 87
ChA == 65
ChV == 86
ChP == 80

\* curLoc.Utc.Ms *= 10   (src/loc.go:238, 268)
TimesTen(utc) == [utc EXCEPT !.Ms = U16(utc.Ms * 10)]

\* doGGA   (src/loc.go:235-262); f[k] of the code is f[k+1]
doGGA(g, f) ==
  [g EXCEPT
     !.curLoc.Utc = TimesTen(ScanTime(f[2], g.curLoc.Utc)),
     !.curLoc.Lat = Negate(f[4] = << ChS >>, fixLG(ParseFloat(f[3]))),
     !.curLoc.Lon = Negate(f[6] = << ChW >>, fixLG(ParseFloat(f[5]))),
     !.curLoc.Quality = U8(Atoi(f[7])),
     !.curLoc.Hdop = ParseFloat(f[9]),
     !.curLoc.Elv = ParseFloat(f[10]),
     !.curLoc.Smask = BitOr(g.curLoc.Smask, GxGGA)]

\* The year doRMC adds to the two digits of the date   (src/loc.go:290)
Century == 2000

\* curLoc.Utc.Year += 2000   (src/loc.go:290)
AddCentury(utc) == [utc EXCEPT !.Year = U16(utc.Year + Century)]

\* speed * 1.852, knots to km/h   (src/loc.go:283)
KnotsToKmh(speed) == speed + TruncDiv(speed * 852, 1000)

\* A void RMC leaves the quality as it is
RMCQualityKept(status, q) ==
  IF status = << ChA >> THEN (IF q = LOC_SIG_BAD THEN LOC_SIG_GPS ELSE q)
  ELSE q

\* Quality after an RMC of the given status   (src/loc.go:300-302, 307-308)
RMCQuality(status, q) ==
  IF status = << ChA >> THEN (IF q = LOC_SIG_BAD THEN LOC_SIG_GPS ELSE q)
  ELSE IF status = << ChV >> THEN LOC_SIG_BAD
  ELSE q

\* NavMode after an RMC of the given status   (src/loc.go:303-305, 309)
RMCNavMode(status, m) ==
  IF status = << ChA >> THEN (IF m <= LOC_FIX_BAD THEN LOC_FIX_2D ELSE m)
  ELSE IF status = << ChV >> THEN LOC_FIX_BAD
  ELSE m

\* doRMC from line 270 on, utc the time and date of lines 266-290.  fixDow
\* panics on a month above 12, before Mv, Quality, NavMode and Smask are set.
doRMCWith(g, f, utc) ==
  IF fixDowPanics(utc) THEN
    [g EXCEPT
       !.curLoc.Utc = utc,
       !.curLoc.Lat = Negate(f[5] = << ChS >>, fixLG(ParseFloat(f[4]))),
       !.curLoc.Lon = Negate(f[7] = << ChW >>, fixLG(ParseFloat(f[6]))),
       !.curLoc.Speed = KnotsToKmh(ParseFloat(f[8])),
       !.curLoc.Heading = ParseFloat(f[9]),
       !.panicked = TRUE]
  ELSE
    [g EXCEPT
       !.curLoc.Utc = fixDow(utc),
       !.curLoc.Lat = Negate(f[5] = << ChS >>, fixLG(ParseFloat(f[4]))),
       !.curLoc.Lon = Negate(f[7] = << ChW >>, fixLG(ParseFloat(f[6]))),
       !.curLoc.Speed = KnotsToKmh(ParseFloat(f[8])),
       !.curLoc.Heading = ParseFloat(f[9]),
       !.curLoc.Mv = Negate(f[12] = << ChW >>, ParseFloat(f[11])),
       !.curLoc.Quality = RMCQuality(f[3], g.curLoc.Quality),
       !.curLoc.NavMode = RMCNavMode(f[3], g.curLoc.NavMode),
       !.curLoc.Smask = BitOr(g.curLoc.Smask, GxRMC)]

\* doRMC   (src/loc.go:265-313)
doRMC(g, f) ==
  doRMCWith(g, f,
    AddCentury(ScanDate(f[10], TimesTen(ScanTime(f[2], g.curLoc.Utc)))))

\* The largest satellite id   (src/loc.go:353, 418)
MaxSatId == 255

\* Satellite slots of a GSA sentence   (src/loc.go:42, 348)
GSA_MAXSAT == 12

RECURSIVE GSAIds(_, _, _)
\* One iteration of the loop of doGSA for id, then the following ones.
\* A negative id passes the test of line 353: iuBM[id/8] is an index out of
\* range from -8 down, and above that the shift by uint(id%8) sets no bit.
GSAId(f, i, bm, id) ==
  IF id = 0 THEN GSAIds(f, i + 1, bm)
  ELSE IF id > MaxSatId \/ TruncDiv(id, 8) < 0
    THEN [bm |-> bm, panicked |-> TRUE]
  ELSE IF id < 0 THEN GSAIds(f, i + 1, bm)
  ELSE GSAIds(f, i + 1, bm \cup {id})

\* The loop of doGSA over fields[3..14]   (src/loc.go:348-357): the in-use
\* set after it, or a panic at an id above 255.
GSAIds(f, i, bm) ==
  IF i >= 3 + GSA_MAXSAT THEN [bm |-> bm, panicked |-> FALSE]
  ELSE GSAId(f, i, bm, Atoi(f[i + 1]))

\* doGSA after its loop, r the outcome of the loop
doGSAWith(g, f, r) ==
  IF r.panicked THEN
    [g EXCEPT !.curLoc.NavMode = U8(Atoi(f[3])), !.iuBM = r.bm,
              !.panicked = TRUE]
  ELSE
    [g EXCEPT !.curLoc.NavMode = U8(Atoi(f[3])), !.iuBM = r.bm,
              !.curLoc.Pdop = ParseFloat(f[16]),
              !.curLoc.Hdop = ParseFloat(f[17]),
              !.curLoc.Vdop = ParseFloat(f[18]),
              !.curLoc.Smask = BitOr(g.curLoc.Smask, GxGSA)]

\* Each GSA sentence starts from an empty in-use set
doGSAFresh(g, f) == doGSAWith(g, f, GSAIds(f, 3, {}))

\* doGSA   (src/loc.go:336-368)
doGSA(g, f) == doGSAWith(g, f, GSAIds(f, 3, g.iuBM))

RECURSIVE GSVAppend(_, _, _, _)
\* One iteration of the loop of doGSV for satellite id sv, then the
\* following ones.
GSVSat(g, f, i, ns, sv) ==
  IF sv = 0 \/ sv < 0 \/ sv > MaxSatId THEN [g |-> g, ok |-> FALSE]
  ELSE GSVAppend(AppendSat(g, [Id |-> U8(sv),
                               Elv |-> U8(Atoi(f[4 + i * 4 + 2])),
                               Azimuth |-> U16(Atoi(f[4 + i * 4 + 3])),
                               Sig |-> U8(Atoi(f[4 + i * 4 + 4])),
                               Inuse |-> sv \in g.iuBM]),
                 f, i + 1, ns)

\* The loop of doGSV   (src/loc.go:416-433): [g, ok]; ok is FALSE when the
\* loop returned at a satellite id that is not in 1..255.
GSVAppend(g, f, i, ns) ==
  IF i >= ns THEN [g |-> g, ok |-> TRUE]
  ELSE GSVSat(g, f, i, ns, Atoi(f[4 + i * 4 + 1]))

\* A first GSV of any talker after a completed burst starts a new list
GSVNewBurstAny(g, f) ==
  IF g.lastGSV
    THEN [g EXCEPT !.lastGSV = FALSE,
                   !.curLoc.Sats = EmptySats(g.curLoc.Sats)]
    ELSE g

\* Lines 404-407: a first GSV of the GP talker after a completed burst
\* starts a new satellite list.
GSVNewBurst(g, f) ==
  IF g.lastGSV /\ f[1][2] = ChP
    THEN [g EXCEPT !.lastGSV = FALSE,
                   !.curLoc.Sats = EmptySats(g.curLoc.Sats)]
    ELSE g

\* Lines 410-412
GSVLast(g, last) == IF last THEN [g EXCEPT !.lastGSV = TRUE] ELSE g

\* Line 435, unless the loop returned
GSVDone(r) ==
  IF r.ok THEN [r.g EXCEPT !.curLoc.Smask = BitOr(r.g.curLoc.Smask, GxGSV)]
  ELSE r.g

\* The new-burst clearing comes before the validation
doGSVEager(g, f, numMsg, msgNum, numSV, ns) ==
  IF msgNum > numMsg \/ numSV < 0 \/ numMsg # TruncDiv(numSV + 3, 4)
    THEN GSVNewBurst(g, f)
  ELSE IF Len(f) < 4 + 4 * ns THEN g
  ELSE GSVDone(GSVAppend(GSVLast(GSVNewBurst(g, f), msgNum = numMsg),
                         f, 0, ns))

\* doGSV from line 382 on
doGSVWith(g, f, numMsg, msgNum, numSV, ns) ==
  IF msgNum > numMsg \/ numSV < 0 \/ numMsg # TruncDiv(numSV + 3, 4) THEN g
  ELSE IF Len(f) < 4 + 4 * ns THEN g
  ELSE GSVDone(GSVAppend(GSVLast(GSVNewBurst(g, f), msgNum = numMsg),
                         f, 0, ns))

\* The final message details 1 + numSV % 4 satellites
GSVCountRem(numMsg, msgNum, numSV) ==
  IF msgNum = numMsg THEN TruncRem(numSV, 4) + 1 ELSE 4

\* The satellites a GSV message details   (src/loc.go:386-389)
GSVCount(numMsg, msgNum, numSV) ==
  IF msgNum = numMsg THEN TruncRem(numSV - 1, 4) + 1 ELSE 4

\* doGSV   (src/loc.go:371-436)
doGSV(g, f) ==
  doGSVWith(g, f, Atoi(f[2]), Atoi(f[3]), Atoi(f[4]),
            GSVCount(Atoi(f[2]), Atoi(f[3]), Atoi(f[4])))

\* ------------------------------------------------------------------------
\* Fix assembler

HasBit(mask, bit) == BitAnd(mask, bit) # 0

\* The level without the test of len(curLoc.Sats) at line 151
LevelNoSats(c, nsats) ==
  IF HasBit(c.Smask, GxRMC) THEN
    IF c.Quality # LOC_SIG_BAD THEN
      IF HasBit(c.Smask, GxGSA) THEN
        (IF HasBit(c.Smask, GxGSV)
           THEN LOC_HAVE_SATELLITES ELSE LOC_HAVE_DOP)
      ELSE
        (IF HasBit(c.Smask, GxGGA)
           THEN LOC_HAVE_ALTITUDE ELSE LOC_HAVE_POSITION)
    ELSE
      (IF c.Utc.Year # 0 THEN LOC_HAVE_TIME ELSE LOC_HAVE_NOTHING)
  ELSE LOC_HAVE_NOTHING

\* The level getLoc computes   (src/loc.go:148-169); nsats is len(Sats)
LevelOf(c, nsats) ==
  IF HasBit(c.Smask, GxRMC) THEN
    IF c.Quality # LOC_SIG_BAD THEN
      IF HasBit(c.Smask, GxGSA) THEN
        (IF HasBit(c.Smask, GxGSV) \/ nsats # 0
           THEN LOC_HAVE_SATELLITES ELSE LOC_HAVE_DOP)
      ELSE
        (IF HasBit(c.Smask, GxGGA)
           THEN LOC_HAVE_ALTITUDE ELSE LOC_HAVE_POSITION)
    ELSE
      (IF c.Utc.Year # 0 THEN LOC_HAVE_TIME ELSE LOC_HAVE_NOTHING)
  ELSE LOC_HAVE_NOTHING

\* Consecutive fixes without GSV after which the satellites are dropped
\* (src/loc.go:200)
NoGSVMax == 4

\* The *LocInfo getLoc returns when objs already holds n copies: the address
\* of the new copy lastLoc   (src/loc.go:172, 213)
NewLocPtr(n) == n + 1

\* The satellites are dropped one fix earlier
RetainedShort(sats, hadGSV, cnt) ==
  IF ~hadGSV /\ cnt >= NoGSVMax - 1 THEN EmptySats(sats) ELSE sats

\* The satellite list after the retention rule   (src/loc.go:196-203)
Retained(sats, hadGSV, cnt) ==
  IF ~hadGSV /\ cnt >= NoGSVMax THEN EmptySats(sats) ELSE sats

\* The in-use set is kept for the next cycle
getLocKeepInUse(g, lastLoc, hadGSV, cnt) ==
  [g EXCEPT
     !.objs = Append(g.objs, lastLoc),
     !.curLoc = [ZeroLoc EXCEPT !.Sats = Retained(g.curLoc.Sats, hadGSV, cnt)],
     !.noGSVcnt = cnt]

\* The copy is taken after the retention rule
getLocLate(g, lastLoc, hadGSV, cnt) ==
  [g EXCEPT
     !.objs = Append(g.objs,
                     [lastLoc EXCEPT
                        !.Sats = Retained(g.curLoc.Sats, hadGSV, cnt)]),
     !.curLoc = [ZeroLoc EXCEPT !.Sats = Retained(g.curLoc.Sats, hadGSV, cnt)],
     !.noGSVcnt = cnt,
     !.iuBM = {}]

\* getLoc from line 172 on, lastLoc the copy of curLoc with its level
getLocWith(g, lastLoc, hadGSV, cnt) ==
  [g EXCEPT
     !.objs = Append(g.objs, lastLoc),
     !.curLoc = [ZeroLoc EXCEPT !.Sats = Retained(g.curLoc.Sats, hadGSV, cnt)],
     !.noGSVcnt = cnt,
     !.iuBM = {}]

\* getLoc   (src/loc.go:146-214): the copy is appended to objs
getLoc(g) ==
  getLocWith(g,
    [g.curLoc EXCEPT !.Level = LevelOf(g.curLoc, g.curLoc.Sats.len)],
    HasBit(g.curLoc.Smask, GxGSV),
    IF HasBit(g.curLoc.Smask, GxGSV) THEN 0 ELSE g.noGSVcnt + 1)

\* ------------------------------------------------------------------------
\* Wire packing: package ebsf (src/unnamed/part_000).  The result of Pack is
\* modelled as the EBSFLocInfo it serialises; the consumers read it back
\* through the same structure.

\* Satellites an EBSFLocInfo holds   (src/unnamed/part_000:13)
EBSF_MAXSAT == 32

\* EBSFLocSat{}
ZeroESat ==
  [Id |-> 0, Elv |-> 0, Res |-> 0, Azimuth |-> 0, Sig |-> 0, Inuse |-> 0]

\* The Satinfo of a new EBSFLocInfo
ZeroSatinfo ==
  [Inuse |-> 0, Inview |-> 0, Sat |-> [k \in 1..EBSF_MAXSAT |-> ZeroESat]]

\* copySat   (src/unnamed/part_000:116-128): the EBSFLocSat written
copySat(sat) ==
  [Id |-> U16(sat.Id), Elv |-> sat.Elv, Res |-> 0, Azimuth |-> sat.Azimuth,
   Sig |-> sat.Sig, Inuse |-> IF sat.Inuse THEN 1 ELSE 0]

\* The body of the if of one of the two loops of Pack up to the test of
\* Inview   (src/unnamed/part_000:135-137, 145-146); want is TRUE in the
\* loop of the in-use satellites
PackOne(si, sat, want) ==
  [si EXCEPT !.Sat[si.Inview + 1] = copySat(sat),
             !.Inuse = IF want THEN U16(si.Inuse + 1) ELSE si.Inuse,
             !.Inview = U16(si.Inview + 1)]

RECURSIVE PackLoop(_, _, _, _)
\* After a satellite was copied: goto copydone when the array is full
PackCopied(sats, i, want, si) ==
  IF si.Inview = EBSF_MAXSAT THEN [si |-> si, done |-> TRUE]
  ELSE PackLoop(sats, i + 1, want, si)

\* One of the two loops of Pack from index i on (1-based)
\* (src/unnamed/part_000:133-152): [si, done], done when it left by goto
PackLoop(sats, i, want, si) ==
  IF i > Len(sats) THEN [si |-> si, done |-> FALSE]
  ELSE IF sats[i].Inuse = want
    THEN PackCopied(sats, i, want, PackOne(si, sats[i], want))
  ELSE PackLoop(sats, i + 1, want, si)

\* The second loop, unless the first left by goto
PackOthers(sats, first) ==
  IF first.done THEN first.si ELSE PackLoop(sats, 1, FALSE, first.si).si

\* The first EBSF_MAXSAT satellites are copied in the order of the list
PackInOrder(li) ==
  [Level |-> li.Level, Quality |-> li.Quality, NavMode |-> li.NavMode,
   Smask |-> li.Smask, Utc |-> li.Utc, Pdop |-> li.Pdop, Hdop |-> li.Hdop,
   Vdop |-> li.Vdop, Lat |-> li.Lat, Lon |-> li.Lon, Elv |-> li.Elv,
   Speed |-> li.Speed, Heading |-> li.Heading, Mv |-> li.Mv,
   Satinfo |->
     [Inuse |-> Cardinality({k \in 1..Len(li.Sats) :
                               k <= EBSF_MAXSAT /\ li.Sats[k].Inuse}),
      Inview |-> IF Len(li.Sats) < EBSF_MAXSAT THEN Len(li.Sats)
                 ELSE EBSF_MAXSAT,
      Sat |-> [k \in 1..EBSF_MAXSAT |->
                 IF k <= Len(li.Sats) THEN copySat(li.Sats[k])
                 ELSE ZeroESat]]]

\* Pack   (src/unnamed/part_000:98-158), li a LocInfo with its satellite
\* list
Pack(li) ==
  [Level |-> li.Level, Quality |-> li.Quality, NavMode |-> li.NavMode,
   Smask |-> li.Smask, Utc |-> li.Utc, Pdop |-> li.Pdop, Hdop |-> li.Hdop,
   Vdop |-> li.Vdop, Lat |-> li.Lat, Lon |-> li.Lon, Elv |-> li.Elv,
   Speed |-> li.Speed, Heading |-> li.Heading, Mv |-> li.Mv,
   Satinfo |-> PackOthers(li.Sats, PackLoop(li.Sats, 1, TRUE, ZeroSatinfo))]

\* ------------------------------------------------------------------------
\* Cycle boundary detector

SfGGA == << 71, 71, 65 >>
SfGSA == << 71, 83, 65 >>
SfRMC == << 82, 77, 67 >>
SfGSV == << 71, 83, 86 >>

\* ss[0][2:], for a field 0 of at least 2 bytes
SeqFormatter(f0) == SubSeq(f0, 3, Len(f0))

\* Consecutive matches after which the candidate is taken   (src/loc.go:453)
NOkMax == 4

\* The match counter after a gap whose previous type is not the candidate
\* (src/loc.go:459)
NOkRestart == 0

\* The candidate changes and the matches counted so far are kept
KeepCount(g) == [g EXCEPT !.tst = g.pst]

\* The previous type is not the candidate: it becomes the candidate
\* (src/loc.go:458-459)
Restart(g) == [g EXCEPT !.tst = g.pst, !.nOk = NOkRestart]

\* The previous type is the candidate   (src/loc.go:452-456)
Match(g) ==
  [g EXCEPT !.nOk = g.nOk + 1,
            !.lst = IF g.nOk + 1 = NOkMax THEN g.pst ELSE g.lst]

\* The else branch of checkCycle: lst is not known   (src/loc.go:447-463)
Learn(g) ==
  IF g.pst # << >> /\ g.since >= g.minDel THEN
    IF g.pst = g.tst THEN Match(g) ELSE Restart(g)
  ELSE g

\* checkCycle   (src/loc.go:439-465).  g.since is time.Since(tPrev).
\* [g, eoc, panicked]
checkCycle(g, ss) ==
  IF g.lst # << >> THEN
    IF ss[1] = g.lst THEN
      IF Len(ss[1]) < 2 THEN [g |-> g, eoc |-> FALSE, panicked |-> TRUE]
      ELSE IF SeqFormatter(ss[1]) # SfGSV
        THEN [g |-> g, eoc |-> TRUE, panicked |-> FALSE]
      ELSE IF Len(ss) < 3 THEN [g |-> g, eoc |-> FALSE, panicked |-> TRUE]
      ELSE [g |-> g, eoc |-> ss[2] = ss[3], panicked |-> FALSE]
    ELSE [g |-> g, eoc |-> FALSE, panicked |-> FALSE]
  ELSE [g |-> Learn(g), eoc |-> FALSE, panicked |-> FALSE]

\* ------------------------------------------------------------------------
\* Sentence validation and dispatch

\* 2^b
Pow2(b) == IF b = 0 THEN 1 ELSE IF b = 1 THEN 2 ELSE IF b = 2 THEN 4
           ELSE IF b = 3 THEN 8 ELSE IF b = 4 THEN 16 ELSE IF b = 5 THEN 32
           ELSE IF b = 6 THEN 64 ELSE 128

\* ccs ^= sentence[i] for i in from..to (1-based, inclusive), ccs a byte
\* that starts at 0   (src/loc.go:500-503): bit b of the result is the
\* parity of the number of bytes that have bit b set
XorBytes(s, from, to) ==
  LET bit(b) == Cardinality({i \in from..to : (s[i] \div Pow2(b)) % 2 = 1}) % 2
  IN bit(0) + 2 * bit(1) + 4 * bit(2) + 8 * bit(3) + 16 * bit(4)
     + 32 * bit(5) + 64 * bit(6) + 128 * bit(7)

MinSentence == 11
MaxSentence == 82

\* The validation of processSentence   (src/loc.go:484-510): [ok, n], n the
\* length of the useful part sentence[0:n]
Validate(sentence) ==
  LET n0 == Len(sentence)
      n == n0 - 2
      m == n - 3
  IN IF n0 < MinSentence \/ n0 > MaxSentence THEN [ok |-> FALSE, n |-> 0]
     ELSE IF sentence[n0 - 2 + 1] # ChCR THEN [ok |-> FALSE, n |-> 0]
     ELSE IF sentence[m + 1] = ChStar THEN
       (IF ParseHex2(Slice(sentence, m + 1, m + 3))
             # XorBytes(sentence, 2, m)
          THEN [ok |-> FALSE, n |-> 0]
          ELSE [ok |-> TRUE, n |-> m])
     ELSE [ok |-> TRUE, n |-> n]

\* One field less than fmtFA asks for is enough
MinFieldsLess(sf) ==
  IF sf = SfGGA THEN 9
  ELSE IF sf = SfGSA THEN 17
  ELSE IF sf = SfRMC THEN 11
  ELSE IF sf = SfGSV THEN 3
  ELSE 0

\* fmtFA   (src/loc.go:120-126): the minimum number of fields of a sentence
\* type, 0 for a type without handler
MinFields(sf) ==
  IF sf = SfGGA THEN 10
  ELSE IF sf = SfGSA THEN 18
  ELSE IF sf = SfRMC THEN 12
  ELSE IF sf = SfGSV THEN 4
  ELSE 0

\* The field indices doGSV reads   (src/loc.go:373-375, 417-424): 1 to 3,
\* and those of the ns satellites it details when it goes past the tests of
\* lines 382 and 391.
GSVFieldsRead(f, numMsg, msgNum, numSV, ns) ==
  IF msgNum > numMsg \/ numSV < 0 \/ numMsg # TruncDiv(numSV + 3, 4)
    THEN 1..3
  ELSE IF Len(f) < 4 + 4 * ns THEN 1..3
  ELSE 1..(3 + 4 * ns)

\* The field indices a handler reads, at most: doGGA (lines 236-258), doGSA
\* (337-364), doRMC (266-299), doGSV
FieldsRead(sf, ss) ==
  IF sf = SfGGA THEN (1..6) \cup { 8, 9 }
  ELSE IF sf = SfGSA THEN 2..17
  ELSE IF sf = SfRMC THEN 1..11
  ELSE IF Len(ss) < 4 THEN 1..3
  ELSE GSVFieldsRead(ss, Atoi(ss[2]), Atoi(ss[3]), Atoi(ss[4]),
                     GSVCount(Atoi(ss[2]), Atoi(ss[3]), Atoi(ss[4])))

\* fmts.fn(ss)   (src/loc.go:537); fields[i] with i >= len(fields) is a
\* run-time panic
Handle(g, sf, ss) ==
  IF \E i \in FieldsRead(sf, ss) : i >= Len(ss)
    THEN [g EXCEPT !.panicked = TRUE]
  ELSE IF sf = SfGGA THEN doGGA(g, ss)
  ELSE IF sf = SfGSA THEN doGSA(g, ss)
  ELSE IF sf = SfRMC THEN doRMC(g, ss)
  ELSE doGSV(g, ss)

\* The least integer that is at least n / 4
CeilQuarter(n) == IF n % 4 = 0 THEN n \div 4 ELSE (n \div 4) + 1

\* The fields are those of a GSV sentence the dispatcher hands to doGSV
IsGSV(ss) == Len(ss[1]) >= 2 /\ SeqFormatter(ss[1]) = SfGSV /\ Len(ss) >= 4

\* Its number of messages, message index and satellite count
NumMsg(ss) == Atoi(ss[2])
MsgNum(ss) == Atoi(ss[3])
NumSV(ss) == Atoi(ss[4])

\* Its message index exceeds its number of messages, its satellite count is
\* negative, or its number of messages is not ceil(satellite count / 4)
Inconsistent(ss) ==
  \/ MsgNum(ss) > NumMsg(ss)
  \/ NumSV(ss) < 0
  \/ NumMsg(ss) # CeilQuarter(NumSV(ss))

\* The satellites it details: 4, or ((satellite count - 1) mod 4) + 1 when
\* it is the final message of its burst
Detailed(ss) ==
  IF MsgNum(ss) = NumMsg(ss) THEN ((NumSV(ss) - 1) % 4) + 1 ELSE 4

\* It is consistent, reports at least one satellite and carries the 4 fields
\* of each satellite it details, every id in 1..255
WellFormed(ss) ==
  /\ ~Inconsistent(ss)
  /\ NumSV(ss) >= 1
  /\ Len(ss) >= 4 + 4 * Detailed(ss)
  /\ \A i \in 0..(Detailed(ss) - 1) :
       Atoi(ss[5 + 4 * i]) >= 1 /\ Atoi(ss[5 + 4 * i]) <= 255

\* History: the place of the sentence of fields ss in a burst that follows
\* a completed burst: its message index when it is a well-formed GSV
\* message that is the first of its burst and comes after a completed
\* burst, or comes right after the message before it of the same burst,
\* itself so placed; 0 otherwise.
BurstSeq(g, ss) ==
  IF ~IsGSV(ss) THEN 0
  ELSE IF ~WellFormed(ss) THEN 0
  ELSE IF MsgNum(ss) = 1 THEN (IF g.lastGSV THEN 1 ELSE 0)
  ELSE IF /\ g.ev.seq > 0
          /\ MsgNum(ss) = g.ev.seq + 1
          /\ ss[1] = g.ev.ss[1]
          /\ NumMsg(ss) = NumMsg(g.ev.ss)
          /\ NumSV(ss) = NumSV(g.ev.ss)
    THEN g.ev.seq + 1
  ELSE 0

\* The sentence arrives after a gap: a sentence came before it and the delay
\* since then is at least the minimum inter-cycle delay.
GapBefore(g) == g.pst # << >> /\ g.since >= g.minDel

\* The RMC of the cycle that ss belongs to has void status: the status of
\* ss when it is an RMC that reaches its handler (lines 122, 299, 531-538),
\* else that of the last RMC since the last fix.
CycleVoid(g, ss) ==
  IF Len(ss[1]) >= 2 /\ SeqFormatter(ss[1]) = SfRMC /\ Len(ss) >= 12
    THEN ss[3] = << ChV >>
  ELSE IF Len(g.objs) > g.ev.fixesBefore THEN FALSE
  ELSE g.ev.void

\* The history of the last sentence that reached checkCycle: its number, its
\* fields, its field 0, lst as it was when the sentence arrived, the number
\* of fixes
\* produced before it, whether its handler ran to its end, whether it arrived
\* after a gap, the latest run of consecutive gaps that came after
\* sentences of one type (that type and the length of the run), its
\* place in a burst of GSV messages, whether the RMC of its cycle is
\* void, and whether its handler was called.
Event(g, ss) ==
  [n |-> g.ev.n + 1, ss |-> ss, f0 |-> ss[1], lstAt |-> g.lst,
   fixesBefore |-> Len(g.objs), handled |-> FALSE,
   gap |-> GapBefore(g), seq |-> BurstSeq(g, ss),
   void |-> CycleVoid(g, ss), called |-> FALSE,
   runType |-> IF GapBefore(g) THEN g.pst ELSE g.ev.runType,
   run |-> IF ~GapBefore(g) THEN g.ev.run
           ELSE IF g.pst = g.ev.runType THEN g.ev.run + 1 ELSE 1]

\* Lines 543-547 up to the send: [g, eoc]
Deliver(g, eoc) ==
  IF g.panicked THEN [g |-> g, eoc |-> FALSE]
  ELSE IF eoc THEN [g |-> Collect(getLoc(g)), eoc |-> TRUE]
  ELSE [g |-> Collect(g), eoc |-> FALSE]

\* The handler returned, unless it panicked
Handled(g) == IF g.panicked THEN g ELSE [g EXCEPT !.ev.handled = TRUE]

\* ss with empty fields after it, mf fields in all
PadTo(ss, mf) ==
  IF Len(ss) >= mf THEN ss ELSE ss \o [i \in 1..(mf - Len(ss)) |-> << >>]

\* A sentence with too few fields is handled, its missing fields empty
DispatchLax(g, ss, mf) ==
  IF mf = 0 THEN g
  ELSE Handled(Handle(g, SeqFormatter(ss[1]), PadTo(ss, mf)))

\* Lines 531-541, mf the minimum number of fields of the sentence type
Dispatch(g, ss, mf) ==
  IF mf = 0 \/ Len(ss) < mf THEN g
  ELSE Handled(Handle([g EXCEPT !.ev.called = TRUE], SeqFormatter(ss[1]),
                      ss))

\* Lines 526-547, cc the result of checkCycle
Process(ss, cc) ==
  IF cc.panicked THEN [g |-> [cc.g EXCEPT !.panicked = TRUE], eoc |-> FALSE]
  ELSE IF Len(ss[1]) < 2 THEN
    \* ss[0][2:] of line 531: slice bounds out of range
    [g |-> [cc.g EXCEPT !.since = 0, !.pst = ss[1], !.panicked = TRUE],
     eoc |-> FALSE]
  ELSE Deliver(Dispatch([cc.g EXCEPT !.since = 0, !.pst = ss[1]], ss,
                        MinFields(SeqFormatter(ss[1]))),
               cc.eoc)

\* Lines 516-547, ss the fields of the sentence
Accepted(g, ss) == Process(ss, checkCycle([g EXCEPT !.ev = Event(g, ss)], ss))

\* Lines 484-547, v the outcome of the validation
Validated(g, sentence, v) ==
  IF ~v.ok THEN [g |-> g, eoc |-> FALSE]
  ELSE Accepted(g, Split(Slice(sentence, 1, v.n), ChComma))

\* processSentence   (src/loc.go:481-548) up to the send of line 545:
\* [g, eoc]; when eoc, getLoc has run and the new fix is the last of g.objs.
processSentence(g, sentence) == Validated(g, sentence, Validate(sentence))

\* ------------------------------------------------------------------------
\* Stream framer

\* feedBuf = data: the bytes kept from the earlier chunks are lost
DropPartial(buf, data) == data

\* feedBuf = append(feedBuf, data...)   (src/loc.go:572)
KeepPartial(buf, data) == buf \o data

\* Lines 576-578, unless processSentence panicked or is sending (r its
\* result), i the index of the LF in data
AfterSentence(r, data, i) ==
  IF r.g.panicked THEN [g |-> r.g, data |-> data, at |-> "panic"]
  ELSE IF r.eoc THEN [g |-> r.g, data |-> data, at |-> "send"]
  ELSE [g |-> [r.g EXCEPT !.feedBuf = << >>, !.feedState = 0],
        data |-> Slice(data, i + 1, Len(data)), at |-> "loop"]

\* The bytes before the '$' stay in data
SeekStartKeep(g, data, i) ==
  IF i = -1 THEN [g |-> g, data |-> << >>, at |-> "return"]
  ELSE [g |-> [g EXCEPT !.feedState = 1], data |-> data, at |-> "loop"]

\* case 0 of Feed   (src/loc.go:563-568), i the index of '$' in data
SeekStart(g, data, i) ==
  IF i = -1 THEN [g |-> g, data |-> << >>, at |-> "return"]
  ELSE [g |-> [g EXCEPT !.feedState = 1],
        data |-> Slice(data, i, Len(data)), at |-> "loop"]

\* case 1 of Feed   (src/loc.go:570-578), i the index of LF in data
SeekEnd(g, data, i) ==
  IF i = -1 THEN
    [g |-> [g EXCEPT !.feedBuf = KeepPartial(g.feedBuf, data)],
     data |-> << >>, at |-> "return"]
  ELSE AfterSentence(processSentence(g, g.feedBuf \o Slice(data, 0, i + 1)),
                     data, i)

\* One iteration of the loop of Feed   (src/loc.go:561-580), up to the send
\* inside processSentence when there is one.
\*   at = "loop":   the iteration ended, back to the loop condition
\*   at = "return": Feed returned from inside the loop
\*   at = "send":   blocked in locChan <- ..., lines 576-578 still to run
\*   at = "panic"
FeedIter(g, data) ==
  IF g.feedState = 0 THEN SeekStart(g, data, IndexByte(data, ChDollar))
  ELSE SeekEnd(g, data, IndexByte(data, ChLF))

\* Lines 576-578 of Feed, after the send of a fix has completed.
FeedAfterSend(g, data) ==
  [g |-> [g EXCEPT !.feedBuf = << >>, !.feedState = 0],
   data |-> Slice(data, IndexByte(data, ChLF) + 1, Len(data))]

\* ------------------------------------------------------------------------
\* The sentences fed to the package

\* $GPRMC,123519,A,4807.038,N,01131.000,E,022.4,084.4,230394,003.1,W*6A\r\n
S_RMC_A ==
  <<36,71,80,82,77,67,44,49,50,51,53,49,57,44,65,44,52,56,48,55,46,48,51,56,
     44,78,44,48,49,49,51,49,46,48,48,48,44,69,44,48,50,50,46,52,44,48,56,52,
     46,52,44,50,51,48,51,57,52,44,48,48,51,46,49,44,87,42,54,65,13,10>>

\* $GPRMC,123519,V,,,,,,,230394,,*33\r\n
S_RMC_V ==
  <<36,71,80,82,77,67,44,49,50,51,53,49,57,44,86,44,44,44,44,44,44,44,50,51,
     48,51,57,52,44,44,42,51,51,13,10>>

\* $GPRMC,,V,,,,,,,,,*31\r\n
S_RMC_VND ==
  <<36,71,80,82,77,67,44,44,86,44,44,44,44,44,44,44,44,44,42,51,49,13,10>>

\* $GPRMC,,A,,,,,,,011394,,*28\r\n
S_RMC_M13 ==
  <<36,71,80,82,77,67,44,44,65,44,44,44,44,44,44,44,48,49,49,51,57,52,44,44,
     42,50,56,13,10>>

\* $GPGGA,123519,4807.038,S,01131.000,W,1,08,0.9,545.4,M,46.9,M,,*48\r\n
S_GGA_1 ==
  <<36,71,80,71,71,65,44,49,50,51,53,49,57,44,52,56,48,55,46,48,51,56,44,83,
     44,48,49,49,51,49,46,48,48,48,44,87,44,49,44,48,56,44,48,46,57,44,53,52,
     53,46,52,44,77,44,52,54,46,57,44,77,44,44,42,52,56,13,10>>

\* $GPGGA,,,,,,0,,,,*66\r\n
S_GGA_0 ==
  <<36,71,80,71,71,65,44,44,44,44,44,44,48,44,44,44,44,42,54,54,13,10>>

\* $GPGSA,A,3,04,05,,09,12,,,24,,,,,2.5,1.3,2.1*39\r\n
S_GSA ==
  <<36,71,80,71,83,65,44,65,44,51,44,48,52,44,48,53,44,44,48,57,44,49,50,44,
     44,44,50,52,44,44,44,44,44,50,46,53,44,49,46,51,44,50,46,49,42,51,57,13,
     10>>

\* $GPGSA,A,3,256,,,,,,,,,,,,,,*2D\r\n
S_GSA_256 ==
  <<36,71,80,71,83,65,44,65,44,51,44,50,53,54,44,44,44,44,44,44,44,44,44,44,
     44,44,44,44,42,50,68,13,10>>

\* $GPGSV,1,1,02,04,40,083,46,17,17,308,41*7C\r\n
S_GSV_11 ==
  <<36,71,80,71,83,86,44,49,44,49,44,48,50,44,48,52,44,52,48,44,48,56,51,44,
     52,54,44,49,55,44,49,55,44,51,48,56,44,52,49,42,55,67,13,10>>

\* $GPGSV,2,1,05,04,40,083,46,17,17,308,41,09,07,344,39,14,22,228,45*73\r\n
S_GSV_21 ==
  <<36,71,80,71,83,86,44,50,44,49,44,48,53,44,48,52,44,52,48,44,48,56,51,44,
     52,54,44,49,55,44,49,55,44,51,48,56,44,52,49,44,48,57,44,48,55,44,51,52,
     52,44,51,57,44,49,52,44,50,50,44,50,50,56,44,52,53,42,55,51,13,10>>

\* $GPGSV,2,2,05,24,16,178,32*42\r\n
S_GSV_22 ==
  <<36,71,80,71,83,86,44,50,44,50,44,48,53,44,50,52,44,49,54,44,49,55,56,44,
     51,50,42,52,50,13,10>>

\* $GPGLL,4916.45,N,12311.12,W,225444,A,*1D\r\n
S_GLL ==
  <<36,71,80,71,76,76,44,52,57,49,54,46,52,53,44,78,44,49,50,51,49,49,46,49,
     50,44,87,44,50,50,53,52,52,52,44,65,44,42,49,68,13,10>>

\* $G,225444,A\r\n
S_SHORT0 ==
  <<36,71,44,50,50,53,52,52,52,44,65,13,10>>

\* $GLGSV,1,1,01,65,30,120,25*50\r\n
S_GLGSV ==
  <<36,71,76,71,83,86,44,49,44,49,44,48,49,44,54,53,44,51,48,44,49,50,48,44,
     50,53,42,53,48,13,10>>

\* $GPGLL,,*50\r\n
S_GLL_S ==
  <<36,71,80,71,76,76,44,44,42,53,48,13,10>>

\* $GPGLL,,*51\r\n
S_GLL_S_BAD ==
  <<36,71,80,71,76,76,44,44,42,53,49,13,10>>

\* $GPRMC,,A,,,,,,,,,*26\r\n
S_RMC_S ==
  <<36,71,80,82,77,67,44,44,65,44,44,44,44,44,44,44,44,44,42,50,54,13,10>>

\* $GPGSV,1,1,01,07,,,*7F\r\n
S_GSV_S ==
  <<36,71,80,71,83,86,44,49,44,49,44,48,49,44,48,55,44,44,44,42,55,70,13,10>>

\* $GPGSV,1,01,01,07,,,*4F\r\n
S_GSV_Z ==
  <<36,71,80,71,83,86,44,49,44,48,49,44,48,49,44,48,55,44,44,44,42,52,70,13,
     10>>

\* $GPGSV,1,1,00*79\r\n   (src/loc.go:381)
S_GSV_0 ==
  <<36,71,80,71,83,86,44,49,44,49,44,48,48,42,55,57,13,10>>

\* Bytes outside any sentence: a\nb
S_JUNK == << 97, 10, 98 >>

\* Field 0 of the GPGLL, GPRMC and GPGSV sentences
T_GPGLL == << 71, 80, 71, 76, 76 >>
T_GPRMC == << 71, 80, 82, 77, 67 >>
T_GPGSV == << 71, 80, 71, 83, 86 >>

\* Field 0 of other sentences: GPGGA, GNGSA, GLGSV, GPVTG and GPGG
T_GPGGA == << 71, 80, 71, 71, 65 >>
T_GNGSA == << 71, 78, 71, 83, 65 >>
T_GLGSV == << 71, 76, 71, 83, 86 >>
T_GPVTG == << 71, 80, 86, 84, 71 >>
T_GPGG == << 71, 80, 71, 71 >>

\* $AA,BB,CC*00\r\n: the bytes between '$' and '*' have 0 as their XOR
S_XOR0 ==
  <<36,65,65,44,66,66,44,67,67,42,48,48,13,10>>

\* $GPGLL,*50,,*53\r\n: a '*' inside the sentence
S_GLL_STAR ==
  <<36,71,80,71,76,76,44,42,53,48,44,44,42,53,51,13,10>>

\* $GPGSV,1,2,04,04,40,083,46*47\r\n: message 2 of 1
S_GSV_12 ==
  <<36,71,80,71,83,86,44,49,44,50,44,48,52,44,48,52,44,52,48,44,48,56,51,44,
     52,54,42,52,55,13,10>>

\* $GPGSV,0,0,-1*65\r\n: -1 satellites in view
S_GSV_NEG ==
  <<36,71,80,71,83,86,44,48,44,48,44,45,49,42,54,53,13,10>>

\* $GPGSV,2,1,03,04,40,083,46,17,17,308,41,09,07,344,39*49\r\n: 2 messages
\* for 3 satellites
S_GSV_MIS ==
  <<36,71,80,71,83,86,44,50,44,49,44,48,51,44,48,52,44,52,48,44,48,56,51,44,
     52,54,44,49,55,44,49,55,44,51,48,56,44,52,49,44,48,57,44,48,55,44,51,
     52,52,44,51,57,42,52,57,13,10>>

\* $GPGSV,1,1,02,04,40,083,46,00,17,308,41*7A\r\n: the second id is 0
S_GSV_B0 ==
  <<36,71,80,71,83,86,44,49,44,49,44,48,50,44,48,52,44,52,48,44,48,56,51,44,
     52,54,44,48,48,44,49,55,44,51,48,56,44,52,49,42,55,65,13,10>>

\* $GPGSV,1,1,02,04,40,083,46,256,17,308,41*4B\r\n: the second id is 256
S_GSV_B256 ==
  <<36,71,80,71,83,86,44,49,44,49,44,48,50,44,48,52,44,52,48,44,48,56,51,44,
     52,54,44,50,53,54,44,49,55,44,51,48,56,44,52,49,42,52,66,13,10>>

\* $GPGSV,0,0,00*79\r\n: message 0 of 0
S_GSV_00 ==
  <<36,71,80,71,83,86,44,48,44,48,44,48,48,42,55,57,13,10>>

\* $GPGSV,2,1,08,01,,,,02,,,,03,,,,04,,,*76\r\n
S_GSV_81 ==
  <<36,71,80,71,83,86,44,50,44,49,44,48,56,44,48,49,44,44,44,44,48,50,44,44,
     44,44,48,51,44,44,44,44,48,52,44,44,44,42,55,54,13,10>>

\* $GPGSV,2,2,08,05,,,,06,,,,07,,,,08,,,*7D\r\n
S_GSV_82 ==
  <<36,71,80,71,83,86,44,50,44,50,44,48,56,44,48,53,44,44,44,44,48,54,44,44,
     44,44,48,55,44,44,44,44,48,56,44,44,44,42,55,68,13,10>>

\* $GPGLL*50\r\n: a payload without ',', one field
S_GLL_1 ==
  <<36,71,80,71,76,76,42,53,48,13,10>>

\* $GPGLLGPGLL\r\n: one field, no checksum
S_GLL_2 ==
  <<36,71,80,71,76,76,71,80,71,76,76,13,10>>

\* ------------------------------------------------------------------------
\* Sentences built from the ones above

ChN == 78
ChE == 69
ChZ == 90
Ch0 == 48

\* The digits 0-9, A-F, a-f
HexChars == (48..57) \cup (65..70) \cup (97..102)

\* s with byte c at position len(s) - back   (0-based)
AlterAt(s, back, c) == [s EXCEPT ![Len(s) - back + 1] = c]

\* s without the 3 bytes of its checksum
NoSum(s) == SubSeq(s, 1, Len(s) - 5) \o << ChCR, ChLF >>

\* $GPGLL followed by commas and CR LF, n bytes in all
Padded(n) ==
  << ChDollar >> \o T_GPGLL \o [i \in 1..(n - 8) |-> ChComma]
    \o << ChCR, ChLF >>

\* $ followed by field 0, n commas and CR LF: n + 1 fields, all but the
\* first empty, no checksum
E_Bare(f0, n) ==
  << ChDollar >> \o f0 \o [i \in 1..n |-> ChComma] \o << ChCR, ChLF >>

\* $GLGSV,1,1 and $GPGSV,1,1: 3 fields; $GPGSV,12: 2 fields
E_GLGSV3 == << ChDollar >> \o T_GLGSV \o << 44, 49, 44, 49, ChCR, ChLF >>
E_GPGSV3 == << ChDollar >> \o T_GPGSV \o << 44, 49, 44, 49, ChCR, ChLF >>
E_GPGSV2 == << ChDollar >> \o T_GPGSV \o << 44, 49, 50, ChCR, ChLF >>

\* $GPGSA,A,3,-1,07,,,,,,,,,,,,,: the ids -1 and 7
E_GSA_NEG ==
  SubSeq(S_GSA, 1, 10) \o << ChComma, ChMinus, 49, ChComma, 48, 55 >>
    \o [i \in 1..13 |-> ChComma] \o << ChCR, ChLF >>

\* The RMC and GGA sentences above without checksum, in the given
\* hemispheres
E_RMC(south, west) ==
  NoSum([S_RMC_A EXCEPT ![26] = IF south THEN ChS ELSE ChN,
                        ![38] = IF west THEN ChW ELSE ChE])

E_GGA(south, west) ==
  NoSum([S_GGA_1 EXCEPT ![24] = IF south THEN ChS ELSE ChN,
                        ![36] = IF west THEN ChW ELSE ChE])

\* That GGA sentence with quality 2 (differential)
E_GGA2 == [E_GGA(FALSE, FALSE) EXCEPT ![38] = Ch0 + 2]

\* n as two decimal digits
Dec2(n) == << Ch0 + (n \div 10), Ch0 + (n % 10) >>

\* The k-th id of a list of `last` ids, the multiples of step; 0 past its end
IdOf(k, step, last) == IF k > last THEN 0 ELSE k * step

\* ",id" for the ids of that list at the places from..to, id as two digits,
\* and `more` empty fields after each
IdFields(from, to, step, last, more) ==
  [i \in 1..((3 + more) * (to - from + 1)) |->
     IF (i - 1) % (3 + more) = 0 THEN ChComma
     ELSE IF (i - 1) % (3 + more) = 1
       THEN Ch0 + (IdOf(from + ((i - 1) \div (3 + more)), step, last) \div 10)
     ELSE IF (i - 1) % (3 + more) = 2
       THEN Ch0 + (IdOf(from + ((i - 1) \div (3 + more)), step, last) % 10)
     ELSE ChComma]

\* $GPGSV,nm,k,n,id,,,...: message k of the burst of nm messages that
\* reports the satellites 1..n
E_GSV(nm, k, n) ==
  << ChDollar >> \o T_GPGSV \o << ChComma >> \o Dec2(nm) \o << ChComma >>
    \o Dec2(k) \o << ChComma >> \o Dec2(n)
    \o IdFields(4 * k - 3, IF 4 * k < n THEN 4 * k ELSE n, 1, n, 3)
    \o << ChCR, ChLF >>

RECURSIVE E_Burst(_, _, _)
\* The messages k..nm of that burst
E_Burst(nm, k, n) ==
  IF k > nm THEN << >> ELSE E_GSV(nm, k, n) \o E_Burst(nm, k + 1, n)

RECURSIVE E_GSAs(_, _, _)
\* $GPGSA,A,3,id,...,,,: the GSA sentences from the q-th on that report as
\* in use the first cnt multiples of step, GSA_MAXSAT to a sentence
E_GSAs(q, step, cnt) ==
  IF GSA_MAXSAT * (q - 1) >= cnt THEN << >>
  ELSE SubSeq(S_GSA, 1, 10)
         \o IdFields(GSA_MAXSAT * (q - 1) + 1, GSA_MAXSAT * q, step, cnt, 0)
         \o << ChComma, ChComma, ChComma, ChCR, ChLF >>
         \o E_GSAs(q + 1, step, cnt)

\* ------------------------------------------------------------------------
\* State

VARIABLES
  curLoc,     \* the fix in progress
  iuBM,       \* in-use satellites (the ids whose bit is set)
  lastGSV,    \* the last GSV message of a burst has been read
  noGSVcnt,   \* successive fixes without GSV message
  lst,        \* last sentence type, << >> while unknown
  pst,        \* previous sentence type
  tst,        \* candidate last sentence type
  nOk,        \* matches of the candidate so far
  minDel,     \* minimum delay between two cycles, ms
  sincePrev,  \* time.Since(tPrev), ms, saturating at MaxSince
  feedState,  \* 0: waiting for '$', 1: waiting for LF
  feedBuf,    \* the partial sentence
  satHeap,    \* backing arrays of the []LocSat slices
  objs,       \* the LocInfo copies allocated by getLoc, in allocation order
  ev,         \* history: the last sentence that reached checkCycle
  pc,         \* the goroutine calling Feed: "idle" (not in Feed), "loop"
              \* (line 561), "send" (blocked at line 545), "resume" (line
              \* 576, after the send), "panic", "closed" (Exit has
              \* closed locChan and Init has not been called again)
  data,       \* Feed's data: what is left of the chunk
  chanBuf,    \* locChan: the buffered elements (none with capacity 0)
  received,   \* history: the *LocInfo the consumer received, in order
  recvVal,    \* history: what each of them held when it was received
  packed,     \* what Pack made of each of them in the consumer
  nFeeds,     \* number of Feed calls so far
  stream,     \* the bytes not yet passed to Feed (chunked replay only)
  split,      \* history: a Feed call returned with a partial sentence kept
  expected    \* history: what the stream is to deliver (the fixes of one
              \* Feed call with the whole stream, or what is known of them)

vars == << curLoc, iuBM, lastGSV, noGSVcnt, lst, pst, tst, nOk, minDel,
           sincePrev, feedState, feedBuf, satHeap, objs, ev, pc, data,
           chanBuf, received, recvVal, packed, nFeeds, stream, split,
           expected >>

\* The package variables as one record.
G ==
  [curLoc |-> curLoc, iuBM |-> iuBM, lastGSV |-> lastGSV,
   noGSVcnt |-> noGSVcnt, lst |-> lst, pst |-> pst, tst |-> tst, nOk |-> nOk,
   minDel |-> minDel, since |-> sincePrev, feedState |-> feedState,
   feedBuf |-> feedBuf, satHeap |-> satHeap, objs |-> objs, ev |-> ev,
   panicked |-> FALSE]

\* The package variables become those of record g.
SetG(g) ==
  /\ curLoc' = g.curLoc
  /\ iuBM' = g.iuBM
  /\ lastGSV' = g.lastGSV
  /\ noGSVcnt' = g.noGSVcnt
  /\ lst' = g.lst
  /\ pst' = g.pst
  /\ tst' = g.tst
  /\ nOk' = g.nOk
  /\ minDel' = g.minDel
  /\ sincePrev' = g.since
  /\ feedState' = g.feedState
  /\ feedBuf' = g.feedBuf
  /\ satHeap' = g.satHeap
  /\ objs' = g.objs
  /\ ev' = g.ev

progVars == << curLoc, iuBM, lastGSV, noGSVcnt, lst, pst, tst, nOk, minDel,
               sincePrev, feedState, feedBuf, satHeap, objs, ev >>

NoEvent ==
  [n |-> 0, ss |-> << >>, f0 |-> << >>, lstAt |-> << >>, fixesBefore |-> 0,
   handled |-> FALSE, gap |-> FALSE, seq |-> 0, void |-> FALSE,
   called |-> FALSE, runType |-> << >>, run |-> 0]

\* The default minimal inter-cycle delay, ms   (src/loc.go:606)
DefaultMinDel == 300

\* minDel as Init sets it   (src/loc.go:605-609)
InitMinDel(minDelay) == IF minDelay = 0 THEN DefaultMinDel ELSE minDelay

\* make(chan *LocInfo, 1): a channel that buffers one fix
ChanCapOne == 0 + 1

\* Capacity of locChan: make(chan *LocInfo)   (src/loc.go:611)
ChanCap == 0

\* The clock advances by TickMs; time.Since(tPrev) is kept up to MaxSince,
\* which no minDel in use exceeds.
TickMs == DefaultMinDel
MaxSince == DefaultMinDel

\* The package after Init(lsdt, minDelay)   (src/loc.go:93-131, 602-614);
\* tPrev is the zero time, so that time.Since(tPrev) is large.
InitPackage(lsdt, minDelay) ==
  /\ curLoc = ZeroLoc
  /\ iuBM = {}
  /\ lastGSV = FALSE
  /\ noGSVcnt = 0
  /\ lst = lsdt
  /\ pst = << >>
  /\ tst = << >>
  /\ nOk = 0
  /\ minDel = InitMinDel(minDelay)
  /\ sincePrev = MaxSince
  /\ feedState = 0
  /\ feedBuf = << >>
  /\ satHeap = << >>
  /\ objs = << >>
  /\ ev = NoEvent
  /\ pc = "idle"
  /\ data = << >>
  /\ chanBuf = << >>
  /\ received = << >>
  /\ recvVal = << >>
  /\ packed = << >>
  /\ nFeeds = 0
  /\ split = FALSE

\* ------------------------------------------------------------------------
\* Actions

\* What the holder of pointer p observes; pointer 0 is &curLoc.
PtrVal(p) == IF p = 0 THEN Deref(satHeap, curLoc) ELSE Deref(satHeap, objs[p])

\* The pointer the blocked send of line 545 offers: the result of getLoc.
Sending == NewLocPtr(Len(objs) - 1)

\* Feed(chunk) is called   (src/loc.go:557)
FeedCall(chunk) ==
  /\ pc = "idle"
  /\ pc' = "loop"
  /\ data' = chunk
  /\ nFeeds' = nFeeds + 1
  /\ UNCHANGED << progVars, chanBuf, received, recvVal, packed, stream, split,
                  expected >>

\* The outcome r of one iteration of the loop of Feed becomes the state.  A
\* fix goes to the buffer of locChan when it has room, else the goroutine
\* blocks.
FeedOutcome(r) ==
  /\ SetG(r.g)
  /\ data' = r.data
  /\ IF r.at = "send" /\ Len(chanBuf) < ChanCap THEN
       /\ chanBuf' = Append(chanBuf, NewLocPtr(Len(r.g.objs) - 1))
       /\ pc' = "resume"
     ELSE
       /\ chanBuf' = chanBuf
       /\ pc' = IF r.at = "return" THEN "idle" ELSE r.at

\* One iteration of the loop of Feed, or its return when no data is left
\* (src/loc.go:561-580).
FeedStep ==
  /\ pc = "loop"
  /\ IF data = << >> THEN
       /\ pc' = "idle"
       /\ UNCHANGED << progVars, data, chanBuf, split >>
     ELSE
       /\ FeedOutcome(FeedIter(G, data))
       /\ split' = (split \/ (feedState = 1 /\ IndexByte(data, ChLF) = -1))
  /\ UNCHANGED << received, recvVal, packed, nFeeds, stream, expected >>

\* The send has completed: lines 576-578 of Feed.
FeedResume ==
  /\ pc = "resume"
  /\ feedBuf' = << >>
  /\ feedState' = 0
  /\ data' = FeedAfterSend(G, data).data
  /\ pc' = "loop"
  /\ UNCHANGED << curLoc, iuBM, lastGSV, noGSVcnt, lst, pst, tst, nOk, minDel,
                  sincePrev, satHeap, objs, ev, chanBuf, received, recvVal,
                  packed, nFeeds, stream, split, expected >>

\* The consumer receives pointer p from locChan and packs what it holds
\* (src/examples/feed/feed.go:56).
Receive(p) ==
  /\ received' = Append(received, p)
  /\ recvVal' = Append(recvVal, PtrVal(p))
  /\ packed' = Append(packed, Pack(PtrVal(p)))

\* The consumer receives from locChan: the head of the buffer (a blocked
\* sender then puts its element in and goes on), or, with an empty buffer,
\* the element of the blocked sender.
Recv ==
  /\ chanBuf # << >> \/ pc = "send"
  /\ Receive(IF chanBuf # << >> THEN Head(chanBuf) ELSE Sending)
  /\ chanBuf' = IF chanBuf = << >> THEN chanBuf
                ELSE IF pc = "send" THEN Append(Tail(chanBuf), Sending)
                ELSE Tail(chanBuf)
  /\ pc' = IF pc = "send" THEN "resume" ELSE pc
  /\ UNCHANGED << progVars, data, nFeeds, stream, split, expected >>

\* Time passes: one minimum inter-cycle delay more since the last sentence.
Tick ==
  /\ pc # "panic"
  /\ sincePrev < MaxSince
  /\ sincePrev' = IF sincePrev + TickMs > MaxSince THEN MaxSince
                  ELSE sincePrev + TickMs
  /\ UNCHANGED << curLoc, iuBM, lastGSV, noGSVcnt, lst, pst, tst, nOk, minDel,
                  feedState, feedBuf, satHeap, objs, ev, pc, data, chanBuf,
                  received, recvVal, packed, nFeeds, stream, split, expected >>

\* ------------------------------------------------------------------------
\* Sessions with a declared last sentence type: any chunk of Chunks at each
\* Feed call, at most MaxFeeds calls.

MaxFeeds == 4

\* s[0:k] and s[k:]
CutHead(s, k) == SubSeq(s, 1, k)
CutTail(s, k) == SubSeq(s, k + 1, Len(s))

Chunks ==
  { S_RMC_A, S_GSA, S_GSV_11, S_GSV_22, S_GLGSV, S_GLL, S_GSA_256, S_RMC_M13,
    S_SHORT0, S_GSV_Z, CutHead(S_GLL, 9), CutTail(S_GLL, 9),
    S_GSV_21 \o S_GSV_22 \o S_GLL_S, S_RMC_V \o S_GLL }

Lsdts == { T_GPGLL, T_GPRMC, T_GPGSV }

Init ==
  /\ \E lsdt \in Lsdts : InitPackage(lsdt, 0)
  /\ stream = << >>
  /\ expected = << >>

Feeding == \E c \in Chunks : nFeeds < MaxFeeds /\ FeedCall(c)

Next == Feeding \/ FeedStep \/ FeedResume \/ Recv

Spec == Init /\ [][Next]_vars

\* ------------------------------------------------------------------------
\* Sessions whose caller is always scheduled again (FeedStep, FeedResume)
\* and whose consumer receives every fix it is offered (Recv): whole
\* sentences, parts of sentences and bytes outside sentences, at most
\* MaxFairFeeds calls.  The weak fairness of FeedStep is written out, its
\* enabling condition being pc = "loop" (LoopCanStep below).

MaxFairFeeds == 3

FairChunks ==
  { S_RMC_A \o S_GLL_S, S_GSA_256, S_JUNK, S_GSV_21 \o S_GSV_22 \o S_GLL_S,
    CutHead(S_GLL_S, 9), CutTail(S_GLL_S, 9), << >> }

InitFair ==
  /\ InitPackage(T_GPGLL, 0)
  /\ stream = << >>
  /\ expected = << >>

FeedFair == \E c \in FairChunks : nFeeds < MaxFairFeeds /\ FeedCall(c)

NextFair == FeedFair \/ FeedStep \/ FeedResume \/ Recv

FairFeedStep == []<>(pc # "loop") \/ []<><<FeedStep>>_vars

SpecFeed ==
  InitFair /\ [][NextFair]_vars /\ FairFeedStep /\ WF_vars(FeedResume)
    /\ WF_vars(Recv)

\* ------------------------------------------------------------------------
\* Sessions of whole cycles closed by GPGLL, the declared last sentence type:
\* each Feed call brings the sentences of one cycle, at most MaxCycles calls.

MaxCycles == 2

Opt(s) == { << >>, s }

Cycles ==
  { rmc \o gga \o gsa \o gsv \o S_GLL_S :
      rmc \in { << >>, S_RMC_A, S_RMC_V }, gga \in Opt(S_GGA_1),
      gsa \in Opt(S_GSA), gsv \in Opt(S_GSV_11) }
  \cup { S_RMC_VND \o S_GLL_S, S_RMC_A \o S_GGA_0 \o S_GLL_S,
         S_GGA_0 \o S_RMC_A \o S_GLL_S,
         S_GGA_1 \o S_GSA \o S_RMC_V \o S_GLL_S,
         E_GGA2 \o S_GSA \o S_RMC_A \o S_GLL_S }

InitLevel ==
  /\ InitPackage(T_GPGLL, 0)
  /\ stream = << >>
  /\ expected = << >>

FeedCycle == \E c \in Cycles : nFeeds < MaxCycles /\ FeedCall(c)

NextLevel == FeedCycle \/ FeedStep \/ FeedResume \/ Recv

SpecLevel == InitLevel /\ [][NextLevel]_vars

\* ------------------------------------------------------------------------
\* Sessions without declared last sentence type: the sentences come with or
\* without a gap before them, at most MaxLearnFeeds Feed calls.

MaxLearnFeeds == 8

LearnChunks == { S_GLL_S, S_RMC_V, S_RMC_V \o S_GLL_S }

InitLearn ==
  /\ InitPackage(<< >>, 0)
  /\ stream = << >>
  /\ expected = << >>

FeedLearn == \E c \in LearnChunks : nFeeds < MaxLearnFeeds /\ FeedCall(c)

NextLearn == FeedLearn \/ FeedStep \/ FeedResume \/ Recv \/ Tick

SpecLearn == InitLearn /\ [][NextLearn]_vars

\* ------------------------------------------------------------------------
\* Sessions of cycles with and without satellites in view, closed by GPGLL,
\* the declared last sentence type: at most MaxRetainFeeds Feed calls of one
\* cycle each.

MaxRetainFeeds == 6

\* A cycle with a GPGSV burst of one message, a cycle with RMC and GSA and
\* without GSV, a cycle with a GLGSV burst, a cycle with a GPGSV burst of
\* two messages.
RetainCycles ==
  { S_RMC_S \o S_GSA \o S_GSV_11 \o S_GLL_S, S_RMC_S \o S_GSA \o S_GLL_S,
    S_GLGSV \o S_GLL_S, S_GSV_21 \o S_GSV_22 \o S_GLL_S }

FeedRetain == \E c \in RetainCycles : nFeeds < MaxRetainFeeds /\ FeedCall(c)

NextRetain == FeedRetain \/ FeedStep \/ FeedResume \/ Recv

SpecRetain == InitLevel /\ [][NextRetain]_vars

\* ------------------------------------------------------------------------
\* Chunked replay: a stream is passed to Feed in consecutive chunks of any
\* length, GPGLL being the declared last sentence type.

Streams ==
  { S_RMC_S \o S_GLL_S \o S_JUNK \o S_GSV_S \o S_GLL_S,
    S_GLL_S \o << ChDollar >> \o S_GLL_S \o S_GLL_S_BAD \o S_GLL_S,
    S_GLL_S \o S_GSA_256 \o S_GLL_S }

\* The fixes of g, as their holders see them
FixesOf(g) == [i \in 1..Len(g.objs) |-> Deref(g.satHeap, g.objs[i])]

RECURSIVE RunIter(_, _)

\* The loop of Feed goes on after an iteration that ended as r, every fix
\* being received as soon as it is sent.
RunFrom(r) ==
  IF r.at = "panic" \/ r.at = "return" THEN r.g
  ELSE IF r.at = "send"
    THEN RunIter(FeedAfterSend(r.g, r.data).g, FeedAfterSend(r.g, r.data).data)
  ELSE RunIter(r.g, r.data)

\* Feed(d) to its end   (src/loc.go:557-581): the package afterwards
RunIter(g, d) == IF d = << >> THEN g ELSE RunFrom(FeedIter(g, d))

InitChunk ==
  /\ InitPackage(T_GPGLL, 0)
  /\ \E s \in Streams :
       /\ stream = s
       /\ expected = FixesOf(RunIter(G, s))

\* Feed is called with the next k bytes of the stream.
FeedChunk ==
  /\ pc = "idle"
  /\ \E k \in 0..Len(stream) :
       /\ data' = CutHead(stream, k)
       /\ stream' = CutTail(stream, k)
  /\ pc' = "loop"
  /\ UNCHANGED << progVars, chanBuf, received, recvVal, packed, nFeeds, split,
                  expected >>

NextChunk == FeedChunk \/ FeedStep \/ FeedResume \/ Recv

SpecChunk == InitChunk /\ [][NextChunk]_vars

\* ------------------------------------------------------------------------
\* One stream passed whole to Feed, with or without declared last sentence
\* type, while time passes.

\* Candidate sentences: GPGLL with each byte in turn at the places of its
\* two checksum digits, checksums that are no digits, no checksum, a '*'
\* elsewhere, lengths around the two limits, no CR.
Candidates ==
  { AlterAt(S_GLL, back, c) : back \in {3, 4}, c \in HexChars \cup {ChZ} }
  \cup { S_XOR0, AlterAt(AlterAt(S_XOR0, 3, ChZ), 4, ChZ), S_GLL_STAR,
          NoSum(S_GLL_STAR), S_GLL_S_BAD, AlterAt(S_GLL_S, 2, ChComma),
          AlterAt(Padded(MinSentence), 2, ChComma) }
  \cup { Padded(n) : n \in { MinSentence - 1, MinSentence, MaxSentence,
                            MaxSentence + 1 } }

\* A candidate arrives after a GSA and a GSV sentence and before a GPGLL.
FrameScenarios ==
  { [lsdt |-> l, stream |-> S_GSA \o S_GSV_11 \o c \o S_GLL_S,
     want |-> << >>] : l \in { T_GPGLL, << >> }, c \in Candidates }

\* GSV sentences that are message 1 of 1, and the satellites in view they
\* report
OneOfOne ==
  { [gsv |-> S_GSV_0, inview |-> 0], [gsv |-> S_GSV_S, inview |-> 1],
    [gsv |-> S_GSV_11, inview |-> 2], [gsv |-> E_GSV(1, 1, 4), inview |-> 4] }

\* The full cycles RMC + GGA + GSA + GSV that end with the declared type
FullCycle(lsdt, rmc, gga, gsv) ==
  IF lsdt = T_GPGSV THEN rmc \o gga \o S_GSA \o gsv
  ELSE IF lsdt = T_GPRMC THEN gga \o S_GSA \o gsv \o rmc
  ELSE rmc \o gga \o S_GSA \o gsv \o S_GLL_S

CycleScenarios ==
  { [lsdt |-> l,
     stream |-> FullCycle(l, E_RMC(south, west), E_GGA(south, west), v.gsv),
     want |-> << [south |-> south, west |-> west, inview |-> v.inview] >>] :
      l \in Lsdts, south \in BOOLEAN, west \in BOOLEAN, v \in OneOfOne }

\* Bursts of n satellites in view, every step-th of them in use
BurstSizes == { [n |-> 5, step |-> 2], [n |-> 32, step |-> 3],
                [n |-> 33, step |-> 2], [n |-> 33, step |-> 34],
                [n |-> 36, step |-> 1], [n |-> 68, step |-> 2] }

BurstScenarios ==
  { [lsdt |-> T_GPGLL,
     stream |-> E_GSAs(1, b.step, b.n \div b.step)
                  \o E_Burst((b.n + 3) \div 4, 1, b.n) \o S_GLL_S,
     want |-> << >>] : b \in BurstSizes }

\* Sentences without handler (GLL, VTG, a field 0 of 4 bytes, payloads of
\* one field) and sentences with one field less than their handler needs,
\* or fewer
Undispatched ==
  { S_GLL, E_Bare(T_GPVTG, 9), E_Bare(T_GPGG, 12), S_GLL_1, S_GLL_2,
    E_Bare(T_GPGGA, 8), E_Bare(T_GNGSA, 16), E_Bare(T_GPRMC, 10), E_GLGSV3,
    E_GPGSV3, E_GPGSV2 }

\* One of them arrives after RMC, GSA and GSV sentences and before a GPGLL.
DispatchScenarios ==
  { [lsdt |-> l, stream |-> S_RMC_A \o S_GSA \o S_GSV_11 \o x \o S_GLL_S,
     want |-> << >>] : l \in Lsdts, x \in Undispatched }

\* GSV sentences and bursts: inconsistent ones, ones with a satellite id
\* out of range, ones that report no satellite, complete and incomplete
\* bursts of the GP and GL talkers, and a burst after a second GSA sentence
GSVProbes ==
  { S_GSV_12, S_GSV_NEG, S_GSV_MIS, S_GSV_B0, S_GSV_B256, S_GSV_0, S_GSV_00,
    S_GSV_81 \o S_GSV_82, S_GSV_21 \o S_GSV_22, S_GSV_21, S_GLGSV,
    E_GSA_NEG \o S_GSV_81 \o S_GSV_82 }

\* One of them arrives in the cycle that follows a cycle with a completed
\* GPGSV burst.
GSVScenarios ==
  { [lsdt |-> l,
     stream |-> S_RMC_A \o S_GSA \o S_GSV_11 \o S_GLL_S \o S_GSA \o x
                  \o S_GLL_S,
     want |-> << >>] : l \in { T_GPGLL, T_GPGSV }, x \in GSVProbes }

\* Sentences with exactly as many fields as their handler needs, all of
\* them empty but the quality of the last one
ExactFields ==
  { E_Bare(T_GPGGA, 9), E_Bare(T_GNGSA, 17), E_Bare(T_GPRMC, 11),
    E_Bare(T_GLGSV, 3), S_GGA_0 }

\* One of them arrives before a GPGLL.
FieldScenarios ==
  { [lsdt |-> T_GPGLL, stream |-> x \o S_GLL_S, want |-> << >>] :
      x \in ExactFields }

Scenarios ==
  FrameScenarios \cup CycleScenarios \cup BurstScenarios
    \cup DispatchScenarios \cup GSVScenarios \cup FieldScenarios

InitWhole ==
  \E sc \in Scenarios :
    /\ InitPackage(sc.lsdt, 0)
    /\ stream = sc.stream
    /\ expected = sc.want

\* Feed is called with the whole stream.
FeedWhole ==
  /\ pc = "idle"
  /\ stream # << >>
  /\ data' = stream
  /\ stream' = << >>
  /\ pc' = "loop"
  /\ UNCHANGED << progVars, chanBuf, received, recvVal, packed, nFeeds, split,
                  expected >>

NextWhole == FeedWhole \/ FeedStep \/ FeedResume \/ Recv \/ Tick

SpecWhole == InitWhole /\ [][NextWhole]_vars

\* ------------------------------------------------------------------------
\* Several sessions in one process: Feed calls, then Exit, then Init again.
\* The package variables are those of lines 93-131, shared by the sessions.

MaxSessionFeeds == 3

SessionLsdts == { T_GPGLL, << >> }

SessionChunks ==
  { S_GSA, S_GSV_21, S_GLL_S, CutHead(S_GLL_S, 9), S_RMC_A \o S_GLL_S }

\* Exit(): close(locChan)   (src/loc.go:617-620), called between Feed calls
ExitCall ==
  /\ pc = "idle"
  /\ pc' = "closed"
  /\ UNCHANGED << progVars, data, chanBuf, received, recvVal, packed, nFeeds,
                  stream, split, expected >>

\* Init(lsdt, minDelay) after Exit   (src/loc.go:602-614): it assigns lst,
\* minDel and locChan, and no other package variable.
InitCall(lsdt, minDelay) ==
  /\ pc = "closed"
  /\ lst' = lsdt
  /\ minDel' = InitMinDel(minDelay)
  /\ chanBuf' = << >>
  /\ pc' = "idle"
  /\ UNCHANGED << curLoc, iuBM, lastGSV, noGSVcnt, pst, tst, nOk, sincePrev,
                  feedState, feedBuf, satHeap, objs, ev, data, received,
                  recvVal, packed, nFeeds, stream, split, expected >>

InitSession ==
  /\ \E lsdt \in SessionLsdts : InitPackage(lsdt, 0)
  /\ stream = << >>
  /\ expected = << >>

FeedSession == \E c \in SessionChunks : nFeeds < MaxSessionFeeds /\ FeedCall(c)

InitAgain == \E lsdt \in SessionLsdts : InitCall(lsdt, 0)

NextSession ==
  FeedSession \/ FeedStep \/ FeedResume \/ Recv \/ Tick \/ ExitCall
    \/ InitAgain

SpecSession == InitSession /\ [][NextSession]_vars

\* ------------------------------------------------------------------------
\* Properties

IsPrefix(a, b) == Len(a) <= Len(b) /\ SubSeq(b, 1, Len(a)) = a

\* The replay is over: every byte has been passed and Feed has returned, or
\* the goroutine has panicked.
ReplayDone == (stream = << >> /\ pc = "idle") \/ pc = "panic"

\* C1: the fixes delivered when Feed is called once per chunk, whatever the
\* cuts, are the fixes delivered when Feed is called once with the whole
\* stream: at every moment a prefix of them, and all of them once every
\* chunk has been processed.
C1_ChunkIndependence ==
  /\ IsPrefix(recvVal, expected)
  /\ ReplayDone => recvVal = expected

\* C1 happens: a stream cut inside a sentence has been replayed to its end
\* and the two fixes of the whole stream have been delivered.
C1_Witness ==
  /\ stream = << >>
  /\ pc = "idle"
  /\ split
  /\ Len(recvVal) >= 2
  /\ recvVal = expected

\* C2: with a known last sentence type that is not a GSV type, the last
\* accepted sentence has produced exactly one fix when its field 0 is that
\* type and none otherwise, and the fix of a closing RMC sentence whose
\* handler ran holds the data of that sentence.
C2_OneFixPerClosingSentence ==
  (ev.n > 0 /\ ev.lstAt # << >> /\ SeqFormatter(ev.lstAt) # SfGSV) =>
    /\ Len(objs) - ev.fixesBefore = (IF ev.f0 = ev.lstAt THEN 1 ELSE 0)
    /\ (ev.f0 = ev.lstAt /\ ev.handled /\ SeqFormatter(ev.f0) = SfRMC) =>
         HasBit(objs[Len(objs)].Smask, GxRMC)

\* C3: whatever the bytes passed to Feed, the goroutine never panics.
C3_NeverPanics == pc # "panic"

\* The fixes have been received in the order of their production, each once,
\* at most one is waiting for the consumer, and the producer is then blocked
\* in the send; nothing is buffered.
HandOffInv ==
  /\ received = [i \in 1..Len(received) |-> i]
  /\ Len(objs) - Len(received) <= 1
  /\ (Len(objs) > Len(received)) <=> (pc = "send")
  /\ chanBuf = << >>

\* While the producer is blocked in the send, the only step is the consumer
\* receiving the fix just produced; the package does nothing meanwhile.
HandOffStep ==
  pc = "send" =>
    /\ pc' = "resume"
    /\ received' = Append(received, Len(objs))
    /\ UNCHANGED << progVars, data >>

\* C4: every fix is received exactly once and in the order of the cycle
\* closes, and the producer stays blocked inside Feed, processing nothing,
\* until the consumer has received the fix.
C4_HandOff == []HandOffInv /\ [][HandOffStep]_vars

\* C4 happens: two fixes have been received and the producer is blocked with
\* a third.
C4_Witness == Len(received) >= 2 /\ pc = "send" /\ Len(objs) = 3

\* C5: what the consumer reads through a received *LocInfo is what it held
\* when it was received, satellite list included.
C5_DeliveredImmutable ==
  \A i \in 1..Len(received) : PtrVal(received[i]) = recvVal[i]

\* C5 happens: after a fix was received, a GSV sentence appended a satellite
\* in place to the backing array the fix shares with the accumulator.
C5_Witness ==
  \E i \in 1..Len(received) :
    /\ objs[received[i]].Sats.arr # 0
    /\ objs[received[i]].Sats.arr = curLoc.Sats.arr
    /\ curLoc.Sats.len > objs[received[i]].Sats.len

\* The level the claims give to a fix with RMC and a quality that is not bad
ValidLevel(f) ==
  IF HasBit(f.Smask, GxGSA) THEN
    (IF HasBit(f.Smask, GxGSV) \/ f.Sats.len # 0 THEN 5 ELSE 4)
  ELSE IF HasBit(f.Smask, GxGGA) THEN 3
  ELSE 2

DatePresent(f) == f.Utc.Day # 0

\* C7: a fix without RMC has level 0; a fix with RMC and a bad quality has
\* level 1 when the date is present and 0 when it is not.
C7_LevelOfInvalidFix ==
  \A i \in 1..Len(objs) :
    /\ ~HasBit(objs[i].Smask, GxRMC) => objs[i].Level = 0
    /\ (HasBit(objs[i].Smask, GxRMC) /\ objs[i].Quality = LOC_SIG_BAD) =>
         objs[i].Level = (IF DatePresent(objs[i]) THEN 1 ELSE 0)

\* C8: a fix of level >= 2 has RMC and a quality that is not bad, of level
\* >= 3 also GGA, of level >= 4 also GSA, of level 5 also GSV or a non-empty
\* satellite list.
C8_LevelsCumulative ==
  \A i \in 1..Len(objs) :
    /\ objs[i].Level >= 2 =>
         HasBit(objs[i].Smask, GxRMC) /\ objs[i].Quality # LOC_SIG_BAD
    /\ objs[i].Level >= 3 => HasBit(objs[i].Smask, GxGGA)
    /\ objs[i].Level >= 4 => HasBit(objs[i].Smask, GxGSA)
    /\ objs[i].Level = 5 =>
         HasBit(objs[i].Smask, GxGSV) \/ objs[i].Sats.len # 0

\* Gaps after which the last sentence type is learned, as documented
\* (src/loc.go:597-599)
LearnAfter == NOkMax

\* C9: without declared last sentence type, once LearnAfter consecutive gaps
\* came after sentences of one type, that type is the last sentence type,
\* and not before; every sentence of the learned type then produces a fix.
C9_LearnedAfterFourGaps ==
  (ev.n > 0 /\ ev.lstAt = << >>) =>
    /\ ev.run >= LearnAfter => lst = ev.runType
    /\ ev.run < LearnAfter => lst = << >>

\* C10 (1): while no last sentence type is known, no fix is produced.
NoFixBeforeLearned == lst = << >> => objs = << >>

\* C10 (2): a gap that came after a sentence whose type is not the candidate
\* makes that type the candidate and restarts the count.
RestartStep ==
  (ev'.n # ev.n /\ ev'.gap /\ lst = << >> /\ pst # tst) =>
    tst' = pst /\ nOk' = 0 /\ lst' = << >>

\* C10 (3): a known last sentence type never changes.
LstKept == lst # << >> => lst' = lst

\* C10: no fix before a last sentence type is learned, a gap after another
\* type than the candidate restarts the count, and a learned type is kept
\* for the rest of the run.
C10_LearningMode ==
  []NoFixBeforeLearned /\ [][RestartStep]_vars /\ [][LstKept]_vars

\* C10 happens: GPGLL has been learned, a fix has been delivered, and a gap
\* came after a sentence of another type since.
C10_Witness ==
  /\ lst = T_GPGLL
  /\ received # << >>
  /\ ev.lstAt = T_GPGLL
  /\ ev.gap
  /\ ev.runType = T_GPRMC

\* The message index of a GSV sentence equals the total of its burst
GSVFinal(ss) == Len(ss) >= 3 /\ Atoi(ss[3]) = Atoi(ss[2])

\* C11: with a known last sentence type that is a GSV type, the last
\* accepted sentence has produced exactly one fix when it is of that type
\* and its message index equals the number of messages of its burst, and no
\* fix otherwise.
C11_GSVClosesAtFinalMessage ==
  (ev.n > 0 /\ ev.lstAt # << >> /\ SeqFormatter(ev.lstAt) = SfGSV) =>
    Len(objs) - ev.fixesBefore =
      (IF ev.f0 = ev.lstAt /\ GSVFinal(ev.ss) THEN 1 ELSE 0)

\* The accumulator's satellite list
SatsNow == SatsOf(satHeap, curLoc.Sats)

\* A GSV sentence of the GP talker arrives after a completed burst
NewGPBurst ==
  /\ lastGSV
  /\ ev'.n # ev.n
  /\ SeqFormatter(ev'.f0) = SfGSV
  /\ ev'.f0[2] = ChP

\* A cycle closes as the fourth or a later consecutive cycle without GSV
LateGSVLessClose == Len(objs') > Len(objs) /\ noGSVcnt' >= 4

\* Every step leaves the satellite list as it is or appends to it, unless
\* it is one of the two above.
SatsStep == IsPrefix(SatsNow, SatsNow') \/ NewGPBurst \/ LateGSVLessClose

RetentionStep ==
  Len(objs') > Len(objs) =>
    /\ noGSVcnt' = (IF HasBit(objs'[Len(objs')].Smask, GxGSV) THEN 0
                    ELSE noGSVcnt + 1)
    /\ noGSVcnt' < 4 => SatsNow' = SatsOf(satHeap', objs'[Len(objs')].Sats)
    /\ noGSVcnt' >= 4 => SatsNow' = << >>

Framed == pc = "loop" /\ feedState = 1 /\ IndexByte(data, ChLF) # -1

Candidate == feedBuf \o Slice(data, 0, IndexByte(data, ChLF) + 1)

\* The step is that iteration of the loop
Processed == Framed /\ (pc' # pc \/ data' # data)

\* The candidate has 11 to 82 bytes and a CR before its LF
WellSized(s) == Len(s) >= 11 /\ Len(s) <= 82 /\ s[Len(s) - 1] = ChCR

\* It has '*' three bytes before its CR
StarAt(s) == s[Len(s) - 4] = ChStar

\* The two bytes after the '*' are hex digits whose value is the XOR of the
\* bytes strictly between '$' and '*'
SumMatches(s) ==
  /\ s[Len(s) - 3] \in HexChars
  /\ s[Len(s) - 2] \in HexChars
  /\ 16 * HexDigit(s[Len(s) - 3]) + HexDigit(s[Len(s) - 2])
       = XorBytes(s, 2, Len(s) - 5)

ChecksumStep ==
  (Processed /\ WellSized(Candidate)) =>
    ((ev'.n # ev.n) <=> (StarAt(Candidate) => SumMatches(Candidate)))

\* C14: a candidate of 11 to 82 bytes that ends with CR LF and has '*' three
\* bytes before its CR is accepted if and only if the two hex digits after
\* the '*' equal the XOR of the bytes strictly between '$' and '*'; without
\* '*' at that place it is accepted.
C14_ChecksumValidation == [][ChecksumStep]_vars

\* The candidate is too short, too long, has no CR before its LF or carries
\* a checksum that does not match
Malformed(s) == ~WellSized(s) \/ (StarAt(s) /\ ~SumMatches(s))

DroppedStep ==
  (Processed /\ Malformed(Candidate)) =>
    /\ UNCHANGED << curLoc, iuBM, lastGSV, noGSVcnt, lst, pst, tst, nOk,
                    sincePrev, satHeap, objs, ev >>
    /\ pc' = "loop"
    /\ feedState' = 0
    /\ feedBuf' = << >>
    /\ data' = Slice(data, IndexByte(data, ChLF) + 1, Len(data))

\* C20: a candidate that is too short, too long, without CR or with a
\* checksum that does not match changes nothing in the accumulator, the
\* in-use set and the cycle detection, produces no fix, and Feed goes on
\* with the bytes after it.
C20_MalformedDropped == [][DroppedStep]_vars

\* C15: a full cycle RMC (active) + GGA + GSA + GSV (1 of 1) that ends with
\* the declared type, fed to a fresh package, has delivered exactly one fix
\* once Feed has returned: of level 5, with a latitude negative iff the
\* hemisphere is S, a longitude negative iff it is W, and as many
\* satellites as the GSV sentence reports in view.
C15_FullCycleFix ==
  (expected # << >> /\ stream = << >> /\ pc = "idle") =>
    /\ Len(objs) = 1
    /\ objs[1].Level = 5
    /\ objs[1].Lat < 0 <=> expected[1].south
    /\ objs[1].Lon < 0 <=> expected[1].west
    /\ objs[1].Sats.len = expected[1].inview

\* The handler of an RMC sentence has run to its end in the step
RMCHandled ==
  ev'.n # ev.n /\ ev'.handled /\ SeqFormatter(ev'.f0) = SfRMC

\* The accumulator right after the handler: the fix, when the sentence
\* closes the cycle
AfterHandler == IF Len(objs') > Len(objs) THEN objs'[Len(objs')] ELSE curLoc'

RMCStatusStep ==
  RMCHandled =>
    /\ ev'.ss[3] = << ChV >> =>
         /\ AfterHandler.Quality = LOC_SIG_BAD
         /\ AfterHandler.NavMode = LOC_FIX_BAD
    /\ ev'.ss[3] = << ChA >> =>
         /\ AfterHandler.Quality =
              (IF curLoc.Quality = LOC_SIG_BAD THEN LOC_SIG_GPS
               ELSE curLoc.Quality)
         /\ AfterHandler.NavMode =
              (IF curLoc.NavMode \in { LOC_FIX_NONE, LOC_FIX_BAD }
                 THEN LOC_FIX_2D ELSE curLoc.NavMode)

\* C16: right after a void RMC the quality and the nav-mode are bad,
\* whatever they were; an active RMC changes the quality only when it is
\* bad (to GPS) and the nav-mode only when it is none or bad (to 2D).
C16_RMCStatus == [][RMCStatusStep]_vars

\* C16 happens: a void RMC came after a GGA with a quality that is not bad
\* and a GSA with a 3D mode, and both are bad now.
C16_Witness ==
  /\ ev.f0 = T_GPRMC
  /\ ev.handled
  /\ ev.ss[3] = << ChV >>
  /\ HasBit(curLoc.Smask, GxGGA)
  /\ HasBit(curLoc.Smask, GxGSA)
  /\ curLoc.Elv # 0
  /\ curLoc.Quality = LOC_SIG_BAD
  /\ curLoc.NavMode = LOC_FIX_BAD

\* The last accepted sentence is a GSA with a satellite id above 255
GSAWithBadId ==
  /\ ev.n > 0
  /\ SeqFormatter(ev.f0) = SfGSA
  /\ Len(ev.ss) >= 3 + GSA_MAXSAT
  /\ \E i \in 4..(3 + GSA_MAXSAT) : Atoi(ev.ss[i]) > 255

\* C17: a GSA sentence with a satellite id above 255 is skipped: the
\* goroutine does not panic on it and goes on with the next sentences.
C17_BadSatIdSkipped == GSAWithBadId => pc # "panic"

\* C18: the record Pack makes of a delivered fix has Inview equal to the
\* number of satellites of the fix and Inuse equal to the number of them
\* that are in use, which is what the example handlers check.
C18_PackedCounts ==
  \A i \in 1..Len(packed) :
    /\ packed[i].Satinfo.Inview = Len(recvVal[i].Sats)
    /\ packed[i].Satinfo.Inuse =
         Cardinality({k \in 1..Len(recvVal[i].Sats) : recvVal[i].Sats[k].Inuse})

InUse(sat) == sat.Inuse
NotInUse(sat) == ~sat.Inuse

\* The satellites in use in their order, then the others in theirs
InUseFirst(sats) == SelectSeq(sats, InUse) \o SelectSeq(sats, NotInUse)

\* The 32 slots that hold the first satellites of list, the others zero
Slots(list) ==
  [k \in 1..32 |-> IF k <= Len(list) THEN copySat(list[k]) ELSE ZeroESat]

\* C19: Pack copies at most 32 satellites, those in use first in their
\* order, then the others in theirs, and drops what exceeds 32; the slots
\* it does not use are zero.   (No satellite that is not in use is packed
\* while one in use is left out: those in use come first.)
C19_PackOrder ==
  \A i \in 1..Len(packed) :
    /\ packed[i].Satinfo.Sat = Slots(InUseFirst(recvVal[i].Sats))
    /\ packed[i].Satinfo.Inview <= 32

\* C19 happens: a fix of more than 32 satellites, some in use and some not,
\* was packed into 32 slots.
C19_Witness ==
  \E i \in 1..Len(packed) :
    /\ Len(recvVal[i].Sats) > 32
    /\ packed[i].Satinfo.Inuse \in 1..31
    /\ packed[i].Satinfo.Inview = 32

\* C21: a validated payload of fewer than 2 fields is dropped: every sentence
\* that has reached the cycle detector has at least 2 fields.
C21_OneFieldDropped == ev.n > 0 => Len(ev.ss) >= 2

\* Fields a sentence of type sf must have to be handled, 0 for a type
\* without handler
Needs(sf) ==
  IF sf = SfGGA THEN 10
  ELSE IF sf = SfGSA THEN 18
  ELSE IF sf = SfRMC THEN 12
  ELSE IF sf = SfGSV THEN 4
  ELSE 0

\* No handler is to run for the sentence of fields ss
NotDispatched(ss) ==
  /\ Len(ss[1]) >= 2
  /\ Needs(SeqFormatter(ss[1])) = 0 \/ Len(ss) < Needs(SeqFormatter(ss[1]))

\* The step is the processing of an accepted sentence
Accepting == ev'.n # ev.n

\* A fix is produced in the step
Closing == Len(objs') > Len(objs)

\* The in-progress fix as its holder sees it, level apart
InProgress(h, c) == Deref(h, [c EXCEPT !.Level = 0])

UndispatchedStep ==
  (Accepting /\ NotDispatched(ev'.ss)) =>
    /\ lastGSV' = lastGSV
    /\ IF Closing
         THEN InProgress(satHeap', objs'[Len(objs')])
                = InProgress(satHeap, curLoc)
         ELSE /\ InProgress(satHeap', curLoc') = InProgress(satHeap, curLoc)
              /\ iuBM' = iuBM
    /\ pc' # "panic" => pst' = ev'.f0
    /\ (ev'.f0 = lst /\ SeqFormatter(lst) # SfGSV) => Closing
    /\ (ev'.f0 = lst /\ SeqFormatter(lst) = SfGSV /\ Len(ev'.ss) >= 3) =>
         (Closing <=> ev'.ss[2] = ev'.ss[3])

\* C22: an accepted sentence whose type has no handler, or a GGA / GSA / RMC
\* / GSV sentence of fewer than 10 / 18 / 12 / 4 fields, leaves the fix in
\* progress, the in-use set and the burst flag as they were, whatever its
\* talker id; the cycle detector sees it: it becomes the previous type and
\* closes the cycle when it is of the last sentence type.
C22_UndispatchedLeavesAccumulator == [][UndispatchedStep]_vars

\* C22 happens: an RMC sentence of 11 fields closed the cycle; the fix holds
\* what GSA and GSV contributed and nothing of an RMC.
C22_Witness ==
  /\ ev.f0 = T_GPRMC
  /\ Len(ev.ss) = 11
  /\ Len(objs) > ev.fixesBefore
  /\ objs[Len(objs)].Smask = GxGSA + GxGSV
  /\ objs[Len(objs)].Sats.len = 2
  /\ lastGSV

\* The accumulator right after the handler, as its holder sees it: the
\* fix, when the sentence closes the cycle
HandlerResult ==
  IF Closing THEN Deref(satHeap', objs'[Len(objs')])
  ELSE Deref(satHeap', curLoc')

\* The step leaves the satellite list, the burst flag and the mask of
\* contributions as they were
GSVSkipped ==
  /\ HandlerResult.Sats = SatsNow
  /\ HandlerResult.Smask = curLoc.Smask
  /\ lastGSV' = lastGSV

InconsistentStep ==
  (Accepting /\ IsGSV(ev'.ss) /\ Inconsistent(ev'.ss)) => GSVSkipped

Kept == IF lastGSV /\ ev'.f0[2] = ChP THEN << >> ELSE SatsNow

AppendStep ==
  (Accepting /\ IsGSV(ev'.ss) /\ WellFormed(ev'.ss)) =>
    /\ IsPrefix(Kept, HandlerResult.Sats)
    /\ Len(HandlerResult.Sats) = Len(Kept) + Detailed(ev'.ss)

\* The accumulator right after the handler of the last accepted sentence
Latest == IF Len(objs) > ev.fixesBefore THEN objs[Len(objs)] ELSE curLoc

\* The last accepted sentence completes a burst of messages 1..numMsg
\* that follows a completed burst
BurstComplete == ev.seq > 0 /\ ev.seq = NumMsg(ev.ss)

IsGSA(ss) == Len(ss[1]) >= 2 /\ SeqFormatter(ss[1]) = SfGSA /\ Len(ss) >= 18

\* The ids 1..255 its 12 satellite fields list
Listed(ss) == { Atoi(ss[i]) : i \in 4..15 } \cap (1..255)

\* The in-use set is empty after a close; otherwise a GSA sentence adds the
\* ids it lists and any other step leaves the set as it is.
InUseSetStep ==
  iuBM' = (IF Closing THEN {}
           ELSE IF Accepting /\ IsGSA(ev'.ss) THEN iuBM \cup Listed(ev'.ss)
           ELSE iuBM)

\* The satellites a GSV sentence appends are in use iff their id is in the
\* in-use set.
TagStep ==
  (Accepting /\ IsGSV(ev'.ss)) =>
    /\ IsPrefix(Kept, HandlerResult.Sats)
    /\ \A k \in (Len(Kept) + 1)..Len(HandlerResult.Sats) :
         HandlerResult.Sats[k].Inuse = (HandlerResult.Sats[k].Id \in iuBM)

\* C25: a satellite appended by a GSV sentence is in use iff its id is in
\* the in-use set at that moment, and the set holds exactly the ids 1..255
\* listed by the GSA sentences handled since the last close: empty at the
\* start and after each close, the union when several GSA sentences come in
\* one cycle.
C25_InUseFromGSA ==
  /\ [](ev.n = 0 => iuBM = {})
  /\ [][InUseSetStep]_vars
  /\ [][TagStep]_vars

\* C25 happens: three GSA sentences listed the even ids up to 68 and a
\* burst then reported the satellites 1..68; the fix has 2 (first GSA
\* sentence) and 50 (third) in use and 3 not.
C25_Witness ==
  \E i \in 1..Len(recvVal) :
    /\ Len(recvVal[i].Sats) = 68
    /\ recvVal[i].Sats[2].Id = 2 /\ recvVal[i].Sats[2].Inuse
    /\ recvVal[i].Sats[50].Id = 50 /\ recvVal[i].Sats[50].Inuse
    /\ ~recvVal[i].Sats[3].Inuse

\* The last accepted sentence is a GSV message 1 of 1 that reports 0
\* satellites
ZeroInView ==
  /\ ev.n > 0
  /\ IsGSV(ev.ss)
  /\ NumMsg(ev.ss) = 1
  /\ MsgNum(ev.ss) = 1
  /\ NumSV(ev.ss) = 0

\* C26: a GSV message 1 of 1 that reports 0 satellites is accepted: it
\* counts as a GSV contribution to the cycle and as the final message of
\* its burst.
C26_ZeroSatellitesAccepted ==
  ZeroInView => HasBit(Latest.Smask, GxGSV) /\ lastGSV

\* Every field of the accumulator but its satellite list is zero and the
\* in-use set is empty
AccumulatorReset ==
  /\ curLoc.Level = 0 /\ curLoc.Quality = 0 /\ curLoc.NavMode = 0
  /\ curLoc.Smask = 0 /\ curLoc.Utc = ZeroTime
  /\ curLoc.Pdop = 0 /\ curLoc.Hdop = 0 /\ curLoc.Vdop = 0
  /\ curLoc.Lat = 0 /\ curLoc.Lon = 0 /\ curLoc.Elv = 0
  /\ curLoc.Speed = 0 /\ curLoc.Heading = 0 /\ curLoc.Mv = 0
  /\ iuBM = {}

\* The close of a cycle by a sentence that is no GSV: the accumulator is
\* reset, the burst flag is kept and the satellite list is that of the fix,
\* or empty.
ResetStep ==
  Closing =>
    /\ AccumulatorReset'
    /\ SeqFormatter(ev'.f0) # SfGSV => lastGSV' = lastGSV
    /\ \/ SatsNow' = SatsOf(satHeap', objs'[Len(objs')].Sats)
       \/ SatsNow' = << >>

\* C27: right after every delivery of a fix the accumulator's level,
\* quality, nav-mode, mask, time, DOP values, latitude, longitude,
\* elevation, speed, heading and magnetic variation are zero and the in-use
\* set is empty, whatever the cycle held; the satellite list and the burst
\* flag carry over.
C27_ResetAtClose ==
  /\ [][ResetStep]_vars
  /\ [](pc \in { "send", "resume" } => AccumulatorReset)

\* C27 happens: a fix of level 5 that holds a position, an elevation, DOP
\* values, a speed, a heading, a magnetic variation and a date is being
\* sent; the accumulator is reset and keeps the 2 satellites and the flag.
C27_Witness ==
  /\ pc = "send"
  /\ objs[Len(objs)].Level = 5
  /\ objs[Len(objs)].Lat # 0 /\ objs[Len(objs)].Lon # 0
  /\ objs[Len(objs)].Elv # 0 /\ objs[Len(objs)].Pdop # 0
  /\ objs[Len(objs)].Speed # 0 /\ objs[Len(objs)].Heading # 0
  /\ objs[Len(objs)].Mv # 0 /\ objs[Len(objs)].Utc.Year # 0
  /\ AccumulatorReset
  /\ curLoc.Sats.len = 2
  /\ lastGSV

\* The input not yet framed: the pending buffer, what is left of the chunk
\* and the chunks to come
Remaining == feedBuf \o data \o stream

\* s starts with '$', ends with LF and holds no other LF
WellFramed(s) ==
  /\ s # << >>
  /\ s[1] = ChDollar
  /\ s[Len(s)] = ChLF
  /\ \A i \in 1..(Len(s) - 1) : s[i] # ChLF

\* b is what is left of a after k bytes
IsRest(a, b, k) == k >= 0 /\ k <= Len(a) /\ b = SubSeq(a, k + 1, Len(a))

\* The step takes the bytes of the candidate, and nothing else, off the
\* input; the buffer is empty and the framer seeks a start afterwards.
Emitted ==
  /\ Remaining = Candidate \o Remaining'
  /\ feedBuf' = << >>
  /\ feedState' = 0

\* The step takes off the input only bytes that come before a '$' while
\* the framer seeks a start.
Discarding ==
  /\ IsRest(Remaining, Remaining', Len(Remaining) - Len(Remaining'))
  /\ Len(Remaining') < Len(Remaining) =>
       /\ feedState = 0
       /\ \A i \in 1..(Len(Remaining) - Len(Remaining')) :
            Remaining[i] # ChDollar

FramingStep ==
  /\ Processed => WellFramed(Candidate)
  /\ IF Processed /\ pc' = "loop" THEN Emitted
     ELSE IF pc = "resume" /\ pc' = "loop" THEN Emitted
     ELSE Discarding /\ (Len(Remaining') < Len(Remaining) => ~Processed)

\* The pending buffer is empty while the framer seeks a start; in it are
\* the bytes of one sentence from its '$' on, without LF.
PendingInv ==
  /\ feedState \in { 0, 1 }
  /\ feedBuf # << >> =>
       /\ feedState = 1
       /\ feedBuf[1] = ChDollar
       /\ \A i \in 1..Len(feedBuf) : feedBuf[i] # ChLF
  /\ (feedState = 1 /\ feedBuf = << >> /\ pc = "loop") =>
       (data # << >> /\ data[1] = ChDollar)

\* C28: every candidate handed to the validator runs from a '$' found
\* while seeking a start to the next LF, which it includes; the bytes before
\* that '$' are discarded; once a candidate is emitted its bytes are off the
\* input, so no byte belongs to two candidates, the pending buffer is empty
\* and the framer seeks a start; the buffer is non-empty only while the
\* framer seeks an end.
C28_Framing == []PendingInv /\ [][FramingStep]_vars

\* C28 happens: a sentence cut in two chunks has been emitted after bytes
\* outside any sentence were discarded; the framer seeks a start and the
\* buffer is empty.
C28_Witness ==
  /\ split
  /\ Len(objs) = 1
  /\ ev.f0 = T_GPGSV
  /\ feedState = 0
  /\ feedBuf = << >>
  /\ pc = "loop"
  /\ data # << >>

\* Fix i had no GSV contribution
GSVLess(i) == ~HasBit(objs[i].Smask, GxGSV)

\* The last of the fixes 1..i that had a GSV contribution, 0 if none had
LastWithGSV(i) ==
  IF \A j \in 1..i : GSVLess(j) THEN 0
  ELSE CHOOSE j \in 1..i :
         ~GSVLess(j) /\ \A k \in (j + 1)..i : GSVLess(k)

\* The consecutive fixes without GSV that end with fix i
GSVLessRun(i) == i - LastWithGSV(i)

\* The satellites of fix i
FixSats(i) == SatsOf(satHeap, objs[i].Sats)

\* RMC and GSA contributed to fix i and its quality is not bad
ValidWithDop(i) ==
  /\ HasBit(objs[i].Smask, GxRMC)
  /\ HasBit(objs[i].Smask, GxGSA)
  /\ objs[i].Quality # LOC_SIG_BAD

HasBadId(ss) ==
  /\ ~Inconsistent(ss)
  /\ NumSV(ss) >= 1
  /\ Len(ss) >= 4 + 4 * Detailed(ss)
  /\ \E i \in 0..(Detailed(ss) - 1) :
       Atoi(ss[5 + 4 * i]) = 0 \/ Atoi(ss[5 + 4 * i]) > 255

BadIdStep == (Accepting /\ IsGSV(ev'.ss) /\ HasBadId(ev'.ss)) => GSVSkipped

\* C30: a GSV sentence dropped because one of the satellites it details has
\* id 0 or an id above 255 leaves the satellite list, the burst flag and
\* the mask of contributions as they were: the list is not emptied and the
\* satellites before the bad one are not appended.
C30_BadIdGSVSkippedWhole == [][BadIdStep]_vars

\* ------------------------------------------------------------------------
\* The fix of a cycle whose RMC is void

\* A fix is produced in the step for a cycle whose RMC had void status
VoidClose == Accepting /\ Closing /\ ev'.void

VoidCloseStep ==
  VoidClose =>
    /\ objs'[Len(objs')].Quality = LOC_SIG_BAD
    /\ objs'[Len(objs')].Level <= LOC_HAVE_TIME

\* C31: when the RMC of a cycle has void status, the fix delivered for the
\* cycle has bad quality and a level of at most 1, whatever the order of
\* the sentences of the cycle (also when a GGA with a quality that is not
\* bad, or a GSA, comes after the void RMC).
C31_VoidCycleFix == [][VoidCloseStep]_vars

\* ------------------------------------------------------------------------
\* The state a session starts from

\* The framer seeks a start with nothing pending, the accumulator, the
\* in-use set, the burst flag and the GSV-less counter are zero, and the
\* candidate, the match counter and the previous sentence type are cleared
Fresh ==
  /\ feedState = 0
  /\ feedBuf = << >>
  /\ Deref(satHeap, curLoc) = Deref(<< >>, ZeroLoc)
  /\ iuBM = {}
  /\ ~lastGSV
  /\ noGSVcnt = 0
  /\ tst = << >>
  /\ nOk = 0
  /\ pst = << >>

\* Init returns in the step
InitReturns == pc = "closed" /\ pc' = "idle"

\* C32: after Init returns, a second Init after Exit included, the framer
\* seeks a start, the pending buffer is empty, the accumulator, the in-use
\* set, the burst flag and the GSV-less counter are zero, and the learning
\* candidate, the match counter and the previous sentence type are
\* cleared.
C32_InitStartsFresh == Fresh /\ [][InitReturns => Fresh']_vars

\* ------------------------------------------------------------------------
\* Termination of Feed

\* The goroutine is inside a call of Feed
InFeed == pc \in { "loop", "send", "resume" }

\* At the loop condition the goroutine can take a step that changes the
\* state: the return, or an iteration that does not leave everything as it
\* was
LoopCanStep ==
  (pc = "loop" /\ data # << >>) =>
    \/ FeedIter(G, data).at # "loop"
    \/ FeedIter(G, data).data # data
    \/ FeedIter(G, data).g.feedState # feedState

\* An iteration of the loop of Feed ends in the step: at once, or, when the
\* sentence closed a cycle, once the send has completed
IterationEnds ==
  \/ pc = "loop" /\ data # << >> /\ pc' # "send" /\ sincePrev' <= sincePrev
  \/ pc = "resume" /\ pc' = "loop"

\* It returns, goes from seeking a start to seeking an end, or consumes at
\* least one byte
IterationStep ==
  IterationEnds =>
    \/ pc' = "idle"
    \/ feedState = 0 /\ feedState' = 1
    \/ Len(data') < Len(data)

\* What is left of the chunk has no terminator: the step changes nothing
\* but the framing state and the pending buffer, which it extends
NoTerminatorStep ==
  (pc = "loop" /\ data # << >> /\ IndexByte(data, ChLF) = -1) =>
    /\ pc' \in { "loop", "idle" }
    /\ IsPrefix(feedBuf, feedBuf')
    /\ UNCHANGED << curLoc, iuBM, lastGSV, noGSVcnt, lst, pst, tst, nOk,
                    minDel, sincePrev, satHeap, objs, ev >>

\* C33: Feed returns after finitely many steps when every fix it offers is
\* received; each iteration of its loop returns, goes from seeking a start
\* to seeking an end, or consumes at least one byte of the chunk; a chunk
\* without terminator only extends the pending buffer.
C33_FeedTerminates ==
  /\ InFeed ~> pc = "idle"
  /\ []LoopCanStep
  /\ [][IterationStep]_vars
  /\ [][NoTerminatorStep]_vars

\* The same with a call that a panic ends counted as ended
FeedEnds ==
  /\ InFeed ~> pc \in { "idle", "panic" }
  /\ []LoopCanStep
  /\ [][pc' # "panic" => IterationStep]_vars
  /\ [][NoTerminatorStep]_vars

\* ------------------------------------------------------------------------
\* The fields the handlers read

\* C34: no handler reads a field that the sentence does not have: for every
\* accepted sentence whose handler is called, every field index that
\* doGGA, doRMC, doGSA or doGSV reads is below the number of fields.
C34_FieldsInRange ==
  ev.called =>
    \A i \in FieldsRead(SeqFormatter(ev.f0), ev.ss) : i < Len(ev.ss)

\* C34 happens: the handler of a GSV sentence of 12 fields has read the
\* fields of the two satellites it details, up to the last field
C34_Witness ==
  /\ ev.called
  /\ ev.handled
  /\ ev.f0 = T_GPGSV
  /\ Len(ev.ss) = 12
  /\ FieldsRead(SfGSV, ev.ss) = 1..11

=============================================================================
